---- MODULE Spec2Model ----
(***************************************************************************)
(* A model of the TP Compatibility Editor (src/src/routes/+page.svelte):   *)
(* the in-memory collection `items`, the selection `selectedItem`, the     *)
(* current file path, the files on disk, the configuration side-file, the  *)
(* asynchronous load / save / save-as handlers suspended at their awaits,  *)
(* and the synchronous field, list and bullet-point edit handlers.         *)
(*                                                                         *)
(* JavaScript values are tagged records, so that values of different       *)
(* JavaScript types can be compared. In Spec and EditSpec a value stands   *)
(* for its content; HeapSpec adds the identity of the arrays and objects   *)
(* of SetupDetails ([ref |-> a] is a reference to the one at address a).   *)
(*   [str |-> <<c1, ..., cn>>]  a string, as the sequence of its characters*)
(*   [num |-> n]                an integer number                          *)
(*   [nan |-> TRUE]             NaN                                        *)
(*   [inf |-> TRUE]             Infinity                                   *)
(*   [bool |-> b]               a boolean                                  *)
(*   [null |-> TRUE]            null                                       *)
(*   [undef |-> TRUE]           undefined                                  *)
(*   [hole |-> TRUE]            an empty slot of a sparse array            *)
(*   [arr |-> <<v1, ..., vn>>]  an array                                   *)
(*   [obj |-> <<[k |-> key, v |-> value], ...>>]  an object, its own       *)
(*                              properties in the order it lists them      *)
(* The text of a file is [json |-> v] (the JSON text that denotes v, v     *)
(* built from str, num, bool, null, arr, obj and the numeral [lit |-> s]   *)
(* that is too large for a number) or [garbage |-> TRUE] (text that is not *)
(* JSON).                                                                  *)
(***************************************************************************)
EXTENDS Integers, Sequences, FiniteSets, TLC

VARIABLES
    items,            \* let items = $state<GameEntry[]>([])
    selectedItem,     \* let selectedItem = $state<number | null>(null)
    currentFilePath,  \* let currentFilePath = $state<string | null>(null)
    disk,             \* the document files: path -> text
    configFile,       \* config.json in the app configuration directory: its lastUsedPath
    tasks,            \* the invocations of the async handlers, each at its await
    toast,            \* the type of the last toast shown: "none", "success" or "error"
    thrown,           \* the last handler ended with an uncaught exception
    lastEdit,         \* the last edit handler that ran, with its arguments
    edits,            \* number of edit handlers run so far
    ios,              \* number of load / save handlers started so far
    store,            \* the arrays and objects behind SetupDetails, by address (HeapSpec)
    root              \* the address of items[selectedItem].SetupDetails (HeapSpec)

vars == <<items, selectedItem, currentFilePath, disk, configFile, tasks, toast, thrown, lastEdit, edits, ios, store, root>>

-----------------------------------------------------------------------------
(* Bounds of the model.                                                    *)

\* edit handlers run in one behaviour of EditSpec
MaxEdits == 2
\* edit handlers run in one behaviour of Spec
MaxIOEdits == 1
\* load / save / save-as handlers started in one behaviour of Spec
MaxIO == 3
\* list indexes passed to the list handlers range over -(MaxIndex + 1) .. MaxIndex
MaxIndex == 2

-----------------------------------------------------------------------------
(* JavaScript values.                                                      *)

Str(s) == [str |-> s]
Num(n) == [num |-> n]
Bool(b) == [bool |-> b]
Arr(s) == [arr |-> s]
Obj(ps) == [obj |-> ps]
NaN == [nan |-> TRUE]
Infinity == [inf |-> TRUE]
Null == [null |-> TRUE]
Undefined == [undef |-> TRUE]
Hole == [hole |-> TRUE]

IsStr(v) == DOMAIN v = {"str"}
IsNum(v) == DOMAIN v = {"num"}
IsArr(v) == DOMAIN v = {"arr"}
IsObj(v) == DOMAIN v = {"obj"}

\* selectedItem = null, currentFilePath = null, a cancelled dialog
NULL == -1
NoPath == "<null>"
NoText == [none |-> TRUE]

\* the keys of an object, in order
Keys(o) == [i \in 1..Len(o.obj) |-> o.obj[i].k]
Has(o, key) == \E i \in 1..Len(o.obj) : o.obj[i].k = key

\* o[key]: undefined when o has no such property
Get(o, key) ==
    IF Has(o, key)
    THEN o.obj[CHOOSE i \in 1..Len(o.obj) : o.obj[i].k = key].v
    ELSE Undefined

Digits == {"0", "1", "2", "3", "4", "5", "6", "7", "8", "9"}

DigitVal(c) ==
    CASE c = "0" -> 0 [] c = "1" -> 1 [] c = "2" -> 2 [] c = "3" -> 3 [] c = "4" -> 4
      [] c = "5" -> 5 [] c = "6" -> 6 [] c = "7" -> 7 [] c = "8" -> 8 [] c = "9" -> 9

\* a key that is an array index ("0", "1", ...; the model has those of one
\* digit): an object lists these first, in ascending order of their number,
\* and after them the other keys in the order they were created
IsIndexKey(key) == key \in Digits

\* o[key] = val: an existing property keeps its place; a new one is appended,
\* or, when its key is an array index, put in its place among the index keys
Set(o, key, val) ==
    IF Has(o, key)
    THEN Obj([i \in 1..Len(o.obj) |->
                IF o.obj[i].k = key THEN [k |-> key, v |-> val] ELSE o.obj[i]])
    ELSE IF IsIndexKey(key)
    THEN LET n == Cardinality({i \in 1..Len(o.obj) :
                                 /\ IsIndexKey(o.obj[i].k)
                                 /\ DigitVal(o.obj[i].k) < DigitVal(key)})
         IN  Obj(SubSeq(o.obj, 1, n) \o <<[k |-> key, v |-> val]>>
                     \o SubSeq(o.obj, n + 1, Len(o.obj)))
    ELSE Obj(Append(o.obj, [k |-> key, v |-> val]))

-----------------------------------------------------------------------------
(* JSON.stringify and JSON.parse.                                          *)

\* The value JSON.stringify writes for v: a property whose value is undefined
\* is left out, NaN and Infinity become null, an empty slot or undefined in an
\* array becomes null.
RECURSIVE ToJSON(_)
ToJSON(v) ==
    IF IsArr(v)
    THEN Arr([i \in 1..Len(v.arr) |->
                IF v.arr[i] \in {Hole, Undefined} THEN Null ELSE ToJSON(v.arr[i])])
    ELSE IF IsObj(v)
    THEN LET kept == SelectSeq(v.obj, LAMBDA p : p.v # Undefined)
         IN  Obj([i \in 1..Len(kept) |-> [k |-> kept[i].k, v |-> ToJSON(kept[i].v)]])
    ELSE IF v \in {NaN, Infinity} THEN Null
    ELSE v

\* JSON.stringify(items, null, 2)
JSONstringify(its) == [json |-> ToJSON(Arr(its))]

\* the numeral 1e999 in a JSON text: valid JSON, and larger than every finite number
HugeNumeral == [lit |-> "1e999"]

\* The value JSON.parse builds from the value a JSON text denotes: the members of
\* an object are defined one by one, so a repeated key keeps its first place and
\* its last value; a numeral too large for a number is read as Infinity.
RECURSIVE FromJSON(_)
RECURSIVE DefineAll(_, _)
DefineAll(o, ps) ==
    IF ps = << >> THEN o
    ELSE DefineAll(Set(o, Head(ps).k, FromJSON(Head(ps).v)), Tail(ps))

FromJSON(j) ==
    IF IsArr(j) THEN Arr([i \in 1..Len(j.arr) |-> FromJSON(j.arr[i])])
    ELSE IF IsObj(j) THEN DefineAll(Obj(<< >>), j.obj)
    ELSE IF j = HugeNumeral THEN Infinity
    ELSE j

\* JSON.parse(text): throws a SyntaxError on text that is not JSON
JSONparse(text) ==
    IF DOMAIN text = {"json"}
    THEN [ok |-> TRUE, value |-> FromJSON(text.json)]
    ELSE [ok |-> FALSE, value |-> Undefined]

-----------------------------------------------------------------------------
(* parseInt and String.prototype.localeCompare.                            *)

Whitespace == {" "}

RECURSIVE SkipWhitespace(_)
SkipWhitespace(s) ==
    IF s # << >> /\ Head(s) \in Whitespace THEN SkipWhitespace(Tail(s)) ELSE s

\* the longest prefix of s made of digits
RECURSIVE DigitPrefix(_)
DigitPrefix(s) ==
    IF s # << >> /\ Head(s) \in Digits THEN <<Head(s)>> \o DigitPrefix(Tail(s)) ELSE << >>

RECURSIVE DecimalValue(_, _)
DecimalValue(ds, acc) ==
    IF ds = << >> THEN acc ELSE DecimalValue(Tail(ds), 10 * acc + DigitVal(Head(ds)))

\* parseInt(s): leading white space is skipped, a sign is read, then the digits up
\* to the first character that is not one; NaN when there is no digit
parseInt(s) ==
    LET t == SkipWhitespace(s)
        neg == t # << >> /\ Head(t) = "-"
        u == IF t # << >> /\ Head(t) \in {"-", "+"} THEN Tail(t) ELSE t
        ds == DigitPrefix(u)
    IN  IF ds = << >> THEN NaN
        ELSE Num(IF neg THEN 0 - DecimalValue(ds, 0) ELSE DecimalValue(ds, 0))

LowerCase == <<"a", "b", "c", "d", "e", "f", "g", "h", "i", "j", "k", "l", "m",
               "n", "o", "p", "q", "r", "s", "t", "u", "v", "w", "x", "y", "z">>
UpperCase == <<"A", "B", "C", "D", "E", "F", "G", "H", "I", "J", "K", "L", "M",
               "N", "O", "P", "Q", "R", "S", "T", "U", "V", "W", "X", "Y", "Z">>

IsLower(c) == \E i \in 1..Len(LowerCase) : LowerCase[i] = c
IsUpper(c) == \E i \in 1..Len(UpperCase) : UpperCase[i] = c

\* The collation of the default locale: the primary weight of a letter is its
\* place in the alphabet whatever its case; white space comes first, then
\* punctuation ("_" before "-"), then the digits, then the letters.
PrimaryWeight(c) ==
    IF IsLower(c) THEN 20 + CHOOSE i \in 1..Len(LowerCase) : LowerCase[i] = c
    ELSE IF IsUpper(c) THEN 20 + CHOOSE i \in 1..Len(UpperCase) : UpperCase[i] = c
    ELSE IF c \in Digits THEN 10 + DigitVal(c)
    ELSE IF c = "-" THEN 3
    ELSE IF c = "_" THEN 2
    ELSE IF c \in Whitespace THEN 1
    ELSE 0

\* at equal primary weights a lower-case letter comes before its upper-case form
CaseWeight(c) == IF IsUpper(c) THEN 1 ELSE 0

\* lexicographic comparison of two sequences of weights: -1, 0 or 1
RECURSIVE CompareWeights(_, _)
CompareWeights(s, t) ==
    IF s = << >> /\ t = << >> THEN 0
    ELSE IF s = << >> THEN -1
    ELSE IF t = << >> THEN 1
    ELSE IF Head(s) < Head(t) THEN -1
    ELSE IF Head(s) > Head(t) THEN 1
    ELSE CompareWeights(Tail(s), Tail(t))

\* a.localeCompare(b): the primary weights decide, then the case
localeCompare(a, b) ==
    LET p == CompareWeights([i \in 1..Len(a) |-> PrimaryWeight(a[i])],
                            [i \in 1..Len(b) |-> PrimaryWeight(b[i])])
    IN  IF p # 0 THEN p
        ELSE CompareWeights([i \in 1..Len(a) |-> CaseWeight(a[i])],
                            [i \in 1..Len(b) |-> CaseWeight(b[i])])

\* the comparator (a, b) => a.Name.localeCompare(b.Name)
CompareNames(a, b) == localeCompare(Get(a, "Name").str, Get(b, "Name").str)

\* Array.prototype.sort is stable: x goes before the first element it is less than
RECURSIVE InsertSorted(_, _)
InsertSorted(x, s) ==
    IF s = << >> THEN <<x>>
    ELSE IF CompareNames(x, Head(s)) < 0 THEN <<x>> \o s
    ELSE <<Head(s)>> \o InsertSorted(x, Tail(s))

\* a sort whose comparator would have its operands exchanged,
\* (a, b) => b.Name.localeCompare(a.Name): C14 fails of it
RECURSIVE InsertDescending(_, _)
InsertDescending(x, s) ==
    IF s = << >> THEN <<x>>
    ELSE IF CompareNames(Head(s), x) < 0 THEN <<x>> \o s
    ELSE <<Head(s)>> \o InsertDescending(x, Tail(s))

RECURSIVE SortByName_Descending(_)
SortByName_Descending(s) ==
    IF s = << >> THEN << >>
    ELSE InsertDescending(s[Len(s)], SortByName_Descending(SubSeq(s, 1, Len(s) - 1)))

RECURSIVE SortByName(_)
SortByName(s) ==
    IF s = << >> THEN << >>
    ELSE InsertSorted(s[Len(s)], SortByName(SubSeq(s, 1, Len(s) - 1)))

-----------------------------------------------------------------------------
(* The document files the behaviours start from.                           *)

Prop(key, val) == [k |-> key, v |-> val]

\* { Category: "", Details: "", BulletPoints: [] }, the template of "Add Setup Detail"
SetupTemplate ==
    Obj(<<Prop("Category", Str(<< >>)), Prop("Details", Str(<< >>)),
          Prop("BulletPoints", Arr(<< >>))>>)

SetupWith(bullets) ==
    Obj(<<Prop("Category", Str(<<"c">>)), Prop("Details", Str(<<"d">>)),
          Prop("BulletPoints", Arr(bullets))>>)

\* the unknown field of the records that carry one
UnknownKey == "Notes"

\* an unknown field whose key is an array index
IndexKey == "7"
UnknownValue == Obj(<<Prop("url", Str(<<"u">>)), Prop("tags", Arr(<<Num(7), Null>>))>>)

\* games.json: three records out of order; the first omits DevOnly, has two
\* setup details, two features and an unknown field (written twice in the text,
\* the second time with the value that counts); the third omits DevOnly too
\* and has an unknown field whose numeral is too large for a number
GamesText ==
    [json |-> Arr(<<
        Obj(<<Prop("Name", Str(<<"B", "a", "n", "a", "n", "a">>)),
              Prop(UnknownKey, Num(0)),
              Prop("OverallStatus", Num(4)),
              Prop("SetupDetails", Arr(<<SetupWith(<<Str(<<"p">>)>>), SetupWith(<< >>)>>)),
              Prop("FeaturesNotEmulated", Arr(<<Str(<<"f">>), Str(<<"g">>)>>)),
              Prop(UnknownKey, UnknownValue)>>),
        Obj(<<Prop("Name", Str(<<"a", "p", "p", "l", "e">>)),
              Prop("OverallStatus", Num(0)),
              Prop("SetupDetails", Arr(<< >>)),
              Prop("FeaturesNotEmulated", Arr(<< >>)),
              Prop("DevOnly", Bool(TRUE))>>),
        Obj(<<Prop("Name", Str(<<"C", "h", "e", "r", "r", "y">>)),
              Prop("OverallStatus", Num(2)),
              Prop("SetupDetails", Arr(<<SetupWith(<< >>)>>)),
              Prop("FeaturesNotEmulated", Arr(<<Str(<<"f">>)>>)),
              Prop("Size", HugeNumeral)>>)>>)]

\* short.json: one record, with an unknown field whose key is an array index
\* written after Name
ShortText ==
    [json |-> Arr(<<
        Obj(<<Prop("Name", Str(<<"a", "p", "p", "l", "e">>)),
              Prop(IndexKey, Str(<<"s">>)),
              Prop("OverallStatus", Num(1)),
              Prop("SetupDetails", Arr(<< >>)),
              Prop("FeaturesNotEmulated", Arr(<<Str(<<"f">>)>>)),
              Prop("DevOnly", Bool(FALSE)),
              Prop(UnknownKey, UnknownValue)>>)>>)]

\* broken.json: text that is not JSON; object.json: the JSON text {}
BrokenText == [garbage |-> TRUE]
ObjectText == [json |-> Obj(<< >>)]

Paths == {"games.json", "short.json", "broken.json", "object.json"}

\* the paths chosen in the save dialog
SavePaths == {"games.json", "short.json"}

InitDisk ==
    [p \in Paths |->
        CASE p = "games.json" -> GamesText
          [] p = "short.json" -> ShortText
          [] p = "broken.json" -> BrokenText
          [] p = "object.json" -> ObjectText]

-----------------------------------------------------------------------------
(* loadJsonData, from the text it has read to the collection.              *)

\* parsedItems.forEach((item) => { if (item.DevOnly === undefined) item.DevOnly = false })
Backfill(item) ==
    IF Get(item, "DevOnly") = Undefined THEN Set(item, "DevOnly", Bool(FALSE)) ELSE item

\* a catch block that would empty the collection: C1 fails of it
ItemsOnLoadError_Cleared(old) == << >>

\* The collection a load leaves on an error: the catch block assigns nothing.
ItemsOnLoadError(old) == old

\* JSON.parse, the backfill and the sort: ok is FALSE when one of them throws
\* (text that is not JSON; a value without forEach; an element that is no object).
\* The records of a document with two or more of them all have a string Name.
LoadOutcome(text) ==
    LET parsed == JSONparse(text)
    IN  IF ~parsed.ok THEN [ok |-> FALSE, items |-> << >>]
        ELSE IF ~IsArr(parsed.value) THEN [ok |-> FALSE, items |-> << >>]
        ELSE IF \E i \in 1..Len(parsed.value.arr) : ~IsObj(parsed.value.arr[i])
        THEN [ok |-> FALSE, items |-> << >>]
        ELSE [ok |-> TRUE,
              items |-> SortByName([i \in 1..Len(parsed.value.arr) |->
                                        Backfill(parsed.value.arr[i])])]

-----------------------------------------------------------------------------
(* The edit handlers, as functions of the collection and the selection.    *)
(* Each yields the collection it leaves and whether it threw.              *)

Done(its) == [items |-> its, thrown |-> FALSE]
Threw(its) == [items |-> its, thrown |-> TRUE]

\* [...a]: a copy, its empty slots read as undefined
Spread(a) == [i \in 1..Len(a) |-> IF a[i] = Hole THEN Undefined ELSE a[i]]

\* a.splice(index, 1): a negative index counts from the end, the start is
\* clamped to 0..length, and at most one element is removed
Splice1(a, index) ==
    LET len == Len(a)
        start == IF index < 0
                 THEN (IF len + index > 0 THEN len + index ELSE 0)
                 ELSE (IF index < len THEN index ELSE len)
        count == IF len - start < 1 THEN len - start ELSE 1
    IN  SubSeq(a, 1, start) \o SubSeq(a, start + count + 1, len)

\* a[index] = value: past the end the array grows and the slots between are
\* empty; a negative index names a property that is no element
AssignIndex(a, index, value) ==
    IF index < 0 THEN a
    ELSE [i \in 1..(IF index + 1 > Len(a) THEN index + 1 ELSE Len(a)) |->
            IF i = index + 1 THEN value
            ELSE IF i <= Len(a) THEN a[i]
            ELSE Hole]

\* items[selectedItem] is undefined
NoRecord(its, sel) == sel < 0 \/ sel >= Len(its)

\* an updateField that would replace the record by one with the named field
\* alone, items[selectedItem] = { [field]: value }: C4 fails of it
updateField_Replacing(its, sel, field, value) ==
    IF sel = NULL THEN Done(its)
    ELSE IF NoRecord(its, sel) THEN Threw(its)
    ELSE Done([its EXCEPT ![sel + 1] = Obj(<<[k |-> field, v |-> value]>>)])

\* an updateField that would sort the collection again after the assignment:
\* C15 fails of it
updateField_Resorting(its, sel, field, value) ==
    IF sel = NULL THEN Done(its)
    ELSE IF NoRecord(its, sel) THEN Threw(its)
    ELSE Done(SortByName([its EXCEPT ![sel + 1] = Set(@, field, value)]))

updateField(its, sel, field, value) ==
    IF sel = NULL THEN Done(its)
    ELSE IF NoRecord(its, sel) THEN Threw(its)
    ELSE Done([its EXCEPT ![sel + 1] = Set(@, field, value)])

\* a variant that assigns only the ordinals 0..4 that the enumerations declare
handleSelectChange_Validating(its, sel, field, raw) ==
    IF raw # << >> /\ parseInt(raw) \in {Num(n) : n \in 0..4}
    THEN updateField(its, sel, field, parseInt(raw))
    ELSE Done(its)

\* if (target && target.value) updateField(field, parseInt(target.value))
handleSelectChange(its, sel, field, raw) ==
    IF raw # << >> THEN updateField(its, sel, field, parseInt(raw)) ELSE Done(its)

\* a variant that puts the template in front of the list (unshift for push)
addArrayItem_Prepending(its, sel, field, template) ==
    IF sel = NULL THEN Done(its)
    ELSE IF NoRecord(its, sel) THEN Threw(its)
    ELSE IF ~IsArr(Get(its[sel + 1], field)) THEN Threw(its)
    ELSE updateField(its, sel, field,
                     Arr(<<template>> \o Spread(Get(its[sel + 1], field).arr)))

\* const currentArray = [...items[selectedItem][field]]; currentArray.push(template);
\* updateField(field, currentArray)
addArrayItem(its, sel, field, template) ==
    IF sel = NULL THEN Done(its)
    ELSE IF NoRecord(its, sel) THEN Threw(its)
    ELSE IF ~IsArr(Get(its[sel + 1], field)) THEN Threw(its)
    ELSE updateField(its, sel, field,
                     Arr(Append(Spread(Get(its[sel + 1], field).arr), template)))

\* a removeArrayItem that would splice the collection in place of the list of
\* the selected record: C7 fails of it
removeArrayItem_OnItems(its, sel, field, index) ==
    IF sel = NULL THEN Done(its)
    ELSE IF NoRecord(its, sel) THEN Threw(its)
    ELSE Done(Splice1(its, index))

removeArrayItem(its, sel, field, index) ==
    IF sel = NULL THEN Done(its)
    ELSE IF NoRecord(its, sel) THEN Threw(its)
    ELSE IF ~IsArr(Get(its[sel + 1], field)) THEN Threw(its)
    ELSE updateField(its, sel, field,
                     Arr(Splice1(Spread(Get(its[sel + 1], field).arr), index)))

updateArrayItem(its, sel, field, index, value) ==
    IF sel = NULL THEN Done(its)
    ELSE IF NoRecord(its, sel) THEN Threw(its)
    ELSE IF ~IsArr(Get(its[sel + 1], field)) THEN Threw(its)
    ELSE updateField(its, sel, field,
                     Arr(AssignIndex(Spread(Get(its[sel + 1], field).arr), index, value)))

\* setupDetails[setupIndex].BulletPoints cannot be read
NoBullets(setups, setupIndex) ==
    \/ setupIndex < 0 \/ setupIndex >= Len(setups)
    \/ ~IsObj(setups[setupIndex + 1])
    \/ ~IsArr(Get(setups[setupIndex + 1], "BulletPoints"))

\* the setup details with the bullet points of one of them replaced
WithBullets(setups, setupIndex, bullets) ==
    [setups EXCEPT ![setupIndex + 1] = Set(@, "BulletPoints", Arr(bullets))]

BulletsOf(setups, setupIndex) == Get(setups[setupIndex + 1], "BulletPoints").arr

updateBulletPoint(its, sel, setupIndex, bulletIndex, value) ==
    IF sel = NULL THEN Done(its)
    ELSE IF NoRecord(its, sel) THEN Threw(its)
    ELSE IF ~IsArr(Get(its[sel + 1], "SetupDetails")) THEN Threw(its)
    ELSE LET setupDetails == Spread(Get(its[sel + 1], "SetupDetails").arr)
         IN  IF NoBullets(setupDetails, setupIndex) THEN Threw(its)
             ELSE updateField(its, sel, "SetupDetails",
                      Arr(WithBullets(setupDetails, setupIndex,
                            AssignIndex(Spread(BulletsOf(setupDetails, setupIndex)),
                                        bulletIndex, value))))

addBulletPoint(its, sel, setupIndex) ==
    IF sel = NULL THEN Done(its)
    ELSE IF NoRecord(its, sel) THEN Threw(its)
    ELSE IF ~IsArr(Get(its[sel + 1], "SetupDetails")) THEN Threw(its)
    ELSE LET setupDetails == Spread(Get(its[sel + 1], "SetupDetails").arr)
         IN  IF NoBullets(setupDetails, setupIndex) THEN Threw(its)
             ELSE updateField(its, sel, "SetupDetails",
                      Arr(WithBullets(setupDetails, setupIndex,
                            Append(BulletsOf(setupDetails, setupIndex), Str(<< >>)))))

\* a removeBulletPoint without the test of selectedItem: with no selection
\* items[selectedItem] is undefined and reading its SetupDetails throws; C5
\* fails of it
removeBulletPoint_Unguarded(its, sel, setupIndex, bulletIndex) ==
    IF NoRecord(its, sel) THEN Threw(its)
    ELSE IF ~IsArr(Get(its[sel + 1], "SetupDetails")) THEN Threw(its)
    ELSE LET setupDetails == Spread(Get(its[sel + 1], "SetupDetails").arr)
         IN  IF NoBullets(setupDetails, setupIndex) THEN Threw(its)
             ELSE Done([its EXCEPT ![sel + 1] =
                      Set(@, "SetupDetails",
                          Arr(WithBullets(setupDetails, setupIndex,
                                Splice1(BulletsOf(setupDetails, setupIndex), bulletIndex))))])

removeBulletPoint(its, sel, setupIndex, bulletIndex) ==
    IF sel = NULL THEN Done(its)
    ELSE IF NoRecord(its, sel) THEN Threw(its)
    ELSE IF ~IsArr(Get(its[sel + 1], "SetupDetails")) THEN Threw(its)
    ELSE LET setupDetails == Spread(Get(its[sel + 1], "SetupDetails").arr)
         IN  IF NoBullets(setupDetails, setupIndex) THEN Threw(its)
             ELSE updateField(its, sel, "SetupDetails",
                      Arr(WithBullets(setupDetails, setupIndex,
                            Splice1(BulletsOf(setupDetails, setupIndex), bulletIndex))))

-----------------------------------------------------------------------------
(* The handlers as actions.                                                *)

Tasks == {1, 2}

\* a slot with no handler in it
Idle == [op |-> "none", pc |-> "idle", path |-> NoPath, text |-> NoText, tried |-> << >>]

\* what an invocation of loadJsonData has awaited so far to find its document,
\* and whether it got it: src is "config" (loadAppConfig gave a lastUsedPath),
\* "remembered" (readTextFile(config.lastUsedPath)), "picker" (the open dialog
\* gave a path) or "picked" (readTextFile(selected))
Tried(src, ok) == [src |-> src, ok |-> ok]

InFlight(t) == tasks[t].pc # "idle"

\* no load or save is suspended
Quiet == \A t \in Tasks : ~InFlight(t)

\* a new invocation takes the first slot that is free
FreeSlot(t) == ~InFlight(t) /\ \A u \in Tasks : u < t => InFlight(u)

\* selectItem(index), from the button of a listed record
SelectItem(index) ==
    /\ index \in 0..(Len(items) - 1)
    /\ selectedItem' = index
    /\ thrown' = FALSE
    /\ UNCHANGED <<items, currentFilePath, disk, configFile, tasks, toast, lastEdit, edits, ios>>
    /\ UNCHANGED <<store, root>>

\* an edit handler that ran to the result res
Edit(op, res) ==
    /\ items' = res.items
    /\ thrown' = res.thrown
    /\ lastEdit' = op
    /\ edits' = edits + 1
    /\ UNCHANGED <<selectedItem, currentFilePath, disk, configFile, tasks, toast, ios>>
    /\ UNCHANGED <<store, root>>

UpdateField(field, value) ==
    Edit([op |-> "updateField", field |-> field, value |-> value],
         updateField(items, selectedItem, field, value))

HandleSelectChange(field, raw) ==
    Edit([op |-> "handleSelectChange", field |-> field, raw |-> raw],
         handleSelectChange(items, selectedItem, field, raw))

AddArrayItem(field, template) ==
    Edit([op |-> "addArrayItem", field |-> field, value |-> template],
         addArrayItem(items, selectedItem, field, template))

RemoveArrayItem(field, index) ==
    Edit([op |-> "removeArrayItem", field |-> field, index |-> index],
         removeArrayItem(items, selectedItem, field, index))

UpdateArrayItem(field, index, value) ==
    Edit([op |-> "updateArrayItem", field |-> field, index |-> index, value |-> value],
         updateArrayItem(items, selectedItem, field, index, value))

UpdateBulletPoint(setupIndex, bulletIndex, value) ==
    Edit([op |-> "updateBulletPoint", setupIndex |-> setupIndex, index |-> bulletIndex,
          value |-> value],
         updateBulletPoint(items, selectedItem, setupIndex, bulletIndex, value))

AddBulletPoint(setupIndex) ==
    Edit([op |-> "addBulletPoint", setupIndex |-> setupIndex],
         addBulletPoint(items, selectedItem, setupIndex))

RemoveBulletPoint(setupIndex, bulletIndex) ==
    Edit([op |-> "removeBulletPoint", setupIndex |-> setupIndex, index |-> bulletIndex],
         removeBulletPoint(items, selectedItem, setupIndex, bulletIndex))

\* showToast(message, type): the toast shown last
showToast(type) == toast' = type

\* what no step of an async handler changes
IOStep ==
    /\ thrown' = FALSE
    /\ UNCHANGED <<selectedItem, lastEdit, edits, store, root>>

\* loadJsonData is called (onMount, or the Load Data button) and suspends in loadAppConfig
LoadStart(t) ==
    /\ FreeSlot(t)
    /\ ios < MaxIO
    /\ ios' = ios + 1
    /\ tasks' = [tasks EXCEPT ![t] = [op |-> "load", pc |-> "config", path |-> NoPath,
                                      text |-> NoText, tried |-> << >>]]
    /\ IOStep
    /\ UNCHANGED <<items, currentFilePath, disk, configFile, toast>>

\* loadAppConfig settles: the configuration read, or {} when reading it failed;
\* then either readTextFile(config.lastUsedPath) or the open dialog is awaited
LoadConfigDone(t, readable) ==
    /\ tasks[t].op = "load" /\ tasks[t].pc = "config"
    /\ LET lastUsedPath == IF readable THEN configFile ELSE NoPath
       IN  tasks' = [tasks EXCEPT ![t] =
                        IF lastUsedPath # NoPath
                        THEN [@ EXCEPT !.pc = "readLast", !.path = lastUsedPath,
                                       !.tried = Append(@, Tried("config", TRUE))]
                        ELSE [@ EXCEPT !.pc = "open",
                                       !.tried = Append(@, Tried("config", FALSE))]]
    /\ IOStep
    /\ UNCHANGED <<items, currentFilePath, disk, configFile, toast, ios>>

\* a variant in which a failed read of the remembered file is reported as an
\* error and ends the load, the picker never being offered
LoadReadLastDone_NoPicker(t, ok) ==
    /\ tasks[t].op = "load" /\ tasks[t].pc = "readLast"
    /\ IF ok
       THEN /\ tasks' = [tasks EXCEPT ![t] = [@ EXCEPT !.pc = "saveConfig",
                                                       !.text = disk[tasks[t].path],
                                                       !.tried = Append(@, Tried("remembered", TRUE))]]
            /\ currentFilePath' = tasks[t].path
            /\ UNCHANGED toast
       ELSE /\ tasks' = [tasks EXCEPT ![t] = Idle]
            /\ showToast("error")
            /\ UNCHANGED currentFilePath
    /\ IOStep
    /\ UNCHANGED <<items, disk, configFile, ios>>

\* readTextFile(config.lastUsedPath) settles: on success filePath is set,
\* currentFilePath is assigned and saveAppConfig is awaited; on failure the open
\* dialog is awaited
LoadReadLastDone(t, ok) ==
    /\ tasks[t].op = "load" /\ tasks[t].pc = "readLast"
    /\ IF ok
       THEN /\ tasks' = [tasks EXCEPT ![t] = [@ EXCEPT !.pc = "saveConfig",
                                                       !.text = disk[tasks[t].path],
                                                       !.tried = Append(@, Tried("remembered", TRUE))]]
            /\ currentFilePath' = tasks[t].path
       ELSE /\ tasks' = [tasks EXCEPT ![t] = [@ EXCEPT !.pc = "open", !.path = NoPath,
                                                       !.tried = Append(@, Tried("remembered", FALSE))]]
            /\ UNCHANGED currentFilePath
    /\ IOStep
    /\ UNCHANGED <<items, disk, configFile, toast, ios>>

\* a variant in which a cancelled open dialog is reported as a failed load
LoadOpenDone_ErrorOnCancel(t, selected) ==
    /\ tasks[t].op = "load" /\ tasks[t].pc = "open"
    /\ tasks' = [tasks EXCEPT ![t] =
                    IF selected = NoPath THEN Idle
                    ELSE [@ EXCEPT !.pc = "readSelected", !.path = selected,
                                   !.tried = Append(@, Tried("picker", TRUE))]]
    /\ IF selected = NoPath THEN showToast("error") ELSE UNCHANGED toast
    /\ IOStep
    /\ UNCHANGED <<items, currentFilePath, disk, configFile, ios>>

\* the open dialog settles: cancelled (the handler returns) or a path, whose
\* readTextFile is awaited
LoadOpenDone(t, selected) ==
    /\ tasks[t].op = "load" /\ tasks[t].pc = "open"
    /\ tasks' = [tasks EXCEPT ![t] =
                    IF selected = NoPath THEN Idle
                    ELSE [@ EXCEPT !.pc = "readSelected", !.path = selected,
                                   !.tried = Append(@, Tried("picker", TRUE))]]
    /\ IOStep
    /\ UNCHANGED <<items, currentFilePath, disk, configFile, toast, ios>>

\* readTextFile(selected) settles: on failure the catch block reports the error
LoadReadSelectedDone(t, ok) ==
    /\ tasks[t].op = "load" /\ tasks[t].pc = "readSelected"
    /\ IF ok
       THEN /\ tasks' = [tasks EXCEPT ![t] = [@ EXCEPT !.pc = "saveConfig",
                                                       !.text = disk[tasks[t].path],
                                                       !.tried = Append(@, Tried("picked", TRUE))]]
            /\ currentFilePath' = tasks[t].path
            /\ UNCHANGED <<items, toast>>
       ELSE /\ tasks' = [tasks EXCEPT ![t] = Idle]
            /\ items' = ItemsOnLoadError(items)
            /\ showToast("error")
            /\ UNCHANGED currentFilePath
    /\ IOStep
    /\ UNCHANGED <<disk, configFile, ios>>

\* a variant in which a failure to write the configuration fails the load
LoadFinish_ConfigFatal(t, written) ==
    /\ tasks[t].op = "load" /\ tasks[t].pc = "saveConfig"
    /\ configFile' = IF written THEN tasks[t].path ELSE configFile
    /\ LET r == LoadOutcome(tasks[t].text)
       IN  /\ items' = IF r.ok /\ written THEN r.items ELSE ItemsOnLoadError(items)
           /\ showToast(IF r.ok /\ written THEN "success" ELSE "error")
    /\ tasks' = [tasks EXCEPT ![t] = Idle]
    /\ IOStep
    /\ UNCHANGED <<currentFilePath, disk, ios>>

\* saveAppConfig settles (a failure to write is swallowed), then the text is
\* parsed, backfilled, sorted and assigned to items, or the catch block reports
LoadFinish(t, written) ==
    /\ tasks[t].op = "load" /\ tasks[t].pc = "saveConfig"
    /\ configFile' = IF written THEN tasks[t].path ELSE configFile
    /\ LET r == LoadOutcome(tasks[t].text)
       IN  /\ items' = IF r.ok THEN r.items ELSE ItemsOnLoadError(items)
           /\ showToast(IF r.ok THEN "success" ELSE "error")
    /\ tasks' = [tasks EXCEPT ![t] = Idle]
    /\ IOStep
    /\ UNCHANGED <<currentFilePath, disk, ios>>

\* saveJsonData (the Save button): with a current path, saveToCurrentPath
\* serializes and awaits writeTextFile; without one, saveAsJsonData
SaveStart(t) ==
    /\ FreeSlot(t)
    /\ ios < MaxIO
    /\ ios' = ios + 1
    /\ tasks' = [tasks EXCEPT ![t] =
                    [op |-> "save",
                     pc |-> IF currentFilePath # NoPath THEN "write" ELSE "dialog",
                     path |-> currentFilePath,
                     text |-> JSONstringify(items),
                     tried |-> << >>]]
    /\ IOStep
    /\ UNCHANGED <<items, currentFilePath, disk, configFile, toast>>

\* writeTextFile(currentFilePath, jsonContent) settles
SaveWriteDone(t, ok) ==
    /\ tasks[t].pc = "write"
    /\ disk' = IF ok THEN [disk EXCEPT ![tasks[t].path] = tasks[t].text] ELSE disk
    /\ showToast(IF ok THEN "success" ELSE "error")
    /\ tasks' = [tasks EXCEPT ![t] = Idle]
    /\ IOStep
    /\ UNCHANGED <<items, currentFilePath, configFile, ios>>

\* saveAsJsonData (the Save As button) serializes and awaits the save dialog
SaveAsStart(t) ==
    /\ FreeSlot(t)
    /\ ios < MaxIO
    /\ ios' = ios + 1
    /\ tasks' = [tasks EXCEPT ![t] = [op |-> "saveAs", pc |-> "dialog", path |-> NoPath,
                                      text |-> JSONstringify(items), tried |-> << >>]]
    /\ IOStep
    /\ UNCHANGED <<items, currentFilePath, disk, configFile, toast>>

\* the save dialog settles: cancelled, or a path whose writeTextFile is awaited
SaveAsDialogDone(t, selectedPath) ==
    /\ tasks[t].pc = "dialog"
    /\ tasks' = [tasks EXCEPT ![t] =
                    IF selectedPath = NoPath THEN Idle
                    ELSE [@ EXCEPT !.pc = "writeSelected", !.path = selectedPath]]
    /\ IOStep
    /\ UNCHANGED <<items, currentFilePath, disk, configFile, toast, ios>>

\* a variant that makes the chosen path the current one before the write settles
SaveAsWriteDone_AdoptsPath(t, ok) ==
    /\ tasks[t].pc = "writeSelected"
    /\ currentFilePath' = tasks[t].path
    /\ IF ok
       THEN /\ disk' = [disk EXCEPT ![tasks[t].path] = tasks[t].text]
            /\ tasks' = [tasks EXCEPT ![t] = [@ EXCEPT !.pc = "saveConfig"]]
            /\ UNCHANGED toast
       ELSE /\ tasks' = [tasks EXCEPT ![t] = Idle]
            /\ showToast("error")
            /\ UNCHANGED disk
    /\ IOStep
    /\ UNCHANGED <<items, configFile, ios>>

\* writeTextFile(selectedPath, jsonContent) settles: on success currentFilePath
\* is assigned and saveAppConfig is awaited; on failure the catch block reports
SaveAsWriteDone(t, ok) ==
    /\ tasks[t].pc = "writeSelected"
    /\ IF ok
       THEN /\ disk' = [disk EXCEPT ![tasks[t].path] = tasks[t].text]
            /\ currentFilePath' = tasks[t].path
            /\ tasks' = [tasks EXCEPT ![t] = [@ EXCEPT !.pc = "saveConfig"]]
            /\ UNCHANGED toast
       ELSE /\ tasks' = [tasks EXCEPT ![t] = Idle]
            /\ showToast("error")
            /\ UNCHANGED <<disk, currentFilePath>>
    /\ IOStep
    /\ UNCHANGED <<items, configFile, ios>>

\* saveAppConfig settles (a failure to write is swallowed) and success is reported
SaveAsFinish(t, written) ==
    /\ tasks[t].op \in {"save", "saveAs"} /\ tasks[t].pc = "saveConfig"
    /\ configFile' = IF written THEN tasks[t].path ELSE configFile
    /\ showToast("success")
    /\ tasks' = [tasks EXCEPT ![t] = Idle]
    /\ IOStep
    /\ UNCHANGED <<items, currentFilePath, disk, ios>>

-----------------------------------------------------------------------------
(* Spec: the page from its mount, with the async handlers interleaved. One  *)
(* edit handler of each kind (a text field, a select, a list, a bullet     *)
(* list) runs among them; EditSpec below ranges over all of them.          *)

\* onMount has called loadJsonData, which is suspended in loadAppConfig; the
\* configuration file is absent (a first run) or remembers games.json
Init ==
    /\ items = << >>
    /\ selectedItem = NULL
    /\ currentFilePath = NoPath
    /\ disk = InitDisk
    /\ configFile \in {NoPath, "games.json"}
    /\ tasks = [t \in Tasks |->
                  IF t = 1
                  THEN [op |-> "load", pc |-> "config", path |-> NoPath, text |-> NoText,
                        tried |-> << >>]
                  ELSE Idle]
    /\ toast = "none"
    /\ thrown = FALSE
    /\ lastEdit = [op |-> "none"]
    /\ edits = 0
    /\ ios = 1
    /\ store = << >>
    /\ root = 0

Next ==
    \/ \E index \in 0..MaxIndex : SelectItem(index)
    \/ edits < MaxIOEdits /\ UpdateField("Name", Str(<<"b">>))
    \/ edits < MaxIOEdits /\ HandleSelectChange("OverallStatus", <<"x">>)
    \/ edits < MaxIOEdits /\ UpdateArrayItem("FeaturesNotEmulated", MaxIndex + 1, Str(<<"v">>))
    \/ edits < MaxIOEdits /\ AddBulletPoint(0)
    \/ \E t \in Tasks : LoadStart(t)
    \/ \E t \in Tasks, readable \in BOOLEAN : LoadConfigDone(t, readable)
    \/ \E t \in Tasks, ok \in BOOLEAN : LoadReadLastDone(t, ok)
    \/ \E t \in Tasks, selected \in Paths \cup {NoPath} : LoadOpenDone(t, selected)
    \/ \E t \in Tasks, ok \in BOOLEAN : LoadReadSelectedDone(t, ok)
    \/ \E t \in Tasks, written \in BOOLEAN : LoadFinish(t, written)
    \/ \E t \in Tasks : SaveStart(t)
    \/ \E t \in Tasks, ok \in BOOLEAN : SaveWriteDone(t, ok)
    \/ \E t \in Tasks : SaveAsStart(t)
    \/ \E t \in Tasks, selectedPath \in SavePaths \cup {NoPath} : SaveAsDialogDone(t, selectedPath)
    \/ \E t \in Tasks, ok \in BOOLEAN : SaveAsWriteDone(t, ok)
    \/ \E t \in Tasks, written \in BOOLEAN : SaveAsFinish(t, written)

Spec == Init /\ [][Next]_vars

-----------------------------------------------------------------------------
(* EditSpec: the edit handlers on a loaded collection, no handler in flight.*)

Indexes == (0 - MaxIndex - 1)..MaxIndex
RawTexts == {<< >>, <<"3">>, <<"9", "9">>, <<"x">>, <<" ">>, <<"1", "x">>}
ListFields == {"FeaturesNotEmulated", "SetupDetails"}
ScalarEdits ==
    {<<"Name", Str(<<"b">>)>>, <<"DevOnly", Bool(TRUE)>>, <<"MultiplayerDetails", Str(<<"m">>)>>}

\* A document has been loaded and every handler has settled. The selection is
\* absent or an index chosen while games.json was loaded, so it may be past the
\* end of the collection that short.json left.
EditInit ==
    /\ currentFilePath \in {"games.json", "short.json"}
    /\ items = LoadOutcome(InitDisk[currentFilePath]).items
    /\ selectedItem \in {NULL} \cup 0..2
    /\ disk = InitDisk
    /\ configFile = currentFilePath
    /\ tasks = [t \in Tasks |-> Idle]
    /\ toast = "success"
    /\ thrown = FALSE
    /\ lastEdit = [op |-> "none"]
    /\ edits = 0
    /\ ios = 1
    /\ store = << >>
    /\ root = 0

EditNext ==
    \/ \E index \in 0..MaxIndex : SelectItem(index)
    \/ edits < MaxEdits /\ \E e \in ScalarEdits : UpdateField(e[1], e[2])
    \/ edits < MaxEdits /\ \E raw \in RawTexts : HandleSelectChange("OverallStatus", raw)
    \/ edits < MaxEdits /\ AddArrayItem("FeaturesNotEmulated", Str(<< >>))
    \/ edits < MaxEdits /\ AddArrayItem("SetupDetails", SetupTemplate)
    \/ edits < MaxEdits /\ \E f \in ListFields, index \in Indexes : RemoveArrayItem(f, index)
    \/ edits < MaxEdits /\ \E index \in Indexes :
            UpdateArrayItem("FeaturesNotEmulated", index, Str(<<"v">>))
    \/ edits < MaxEdits /\ \E k \in 0..1, index \in -1..1 : UpdateBulletPoint(k, index, Str(<<"v">>))
    \/ edits < MaxEdits /\ \E k \in 0..1 : AddBulletPoint(k)
    \/ edits < MaxEdits /\ \E k \in 0..1, index \in -1..1 : RemoveBulletPoint(k, index)

EditSpec == EditInit /\ [][EditNext]_vars

-----------------------------------------------------------------------------
(* ParseSpec: the last step of loadJsonData (parse, backfill, sort, assign) *)
(* on the documents of up to MaxRecords records drawn from Names and       *)
(* DevOnlyChoices.                                                         *)

\* records of a document of ParseSpec
MaxRecords == 3

Names ==
    {<<"B", "a", "n", "a", "n", "a">>, <<"a", "p", "p", "l", "e">>,
     <<"C", "h", "e", "r", "r", "y">>, <<"a", "1">>, <<"a", "_">>}

\* DevOnly as the document gives it: left out (Undefined), true, false or null
DevOnlyChoices == {Undefined, Bool(TRUE), Bool(FALSE), Null}

\* a record of a document, as its JSON text denotes it
RecordOf(name, devOnly) ==
    IF devOnly = Undefined
    THEN Obj(<<Prop("Name", Str(name)), Prop("OverallStatus", Num(0))>>)
    ELSE Obj(<<Prop("Name", Str(name)), Prop("DevOnly", devOnly),
               Prop("OverallStatus", Num(0))>>)

Records == {RecordOf(n, d) : n \in Names, d \in DevOnlyChoices}

Documents == UNION {[1..n -> Records] : n \in 0..MaxRecords}

\* readTextFile has given the text of a document and saveAppConfig is awaited
ParseInit ==
    /\ \E doc \in Documents :
          /\ disk = [InitDisk EXCEPT !["games.json"] = [json |-> Arr(doc)]]
          /\ tasks = [t \in Tasks |->
                        IF t = 1
                        THEN [op |-> "load", pc |-> "saveConfig", path |-> "games.json",
                              text |-> [json |-> Arr(doc)],
                              tried |-> <<Tried("config", FALSE), Tried("picker", TRUE),
                                          Tried("picked", TRUE)>>]
                        ELSE Idle]
    /\ items = << >>
    /\ selectedItem = NULL
    /\ currentFilePath = "games.json"
    /\ configFile = NoPath
    /\ toast = "none"
    /\ thrown = FALSE
    /\ lastEdit = [op |-> "none"]
    /\ edits = 0
    /\ ios = 1
    /\ store = << >>
    /\ root = 0

ParseNext == \E t \in Tasks, written \in BOOLEAN : LoadFinish(t, written)

ParseSpec == ParseInit /\ [][ParseNext]_vars

-----------------------------------------------------------------------------
(* HeapSpec: the list and bullet-point handlers of SetupDetails on the     *)
(* arrays and objects themselves. store[a] is the array or object at       *)
(* address a; an element or property that is an array or object is held as *)
(* a reference [ref |-> a], so that two places can hold the same one.      *)

\* edit handlers run in one behaviour of HeapSpec
MaxHeapEdits == 3

Ref(a) == [ref |-> a]
IsRef(v) == DOMAIN v = {"ref"}

\* the content behind v, every reference followed
RECURSIVE Deref(_, _)
Deref(st, v) ==
    IF IsRef(v) THEN Deref(st, st[v.ref])
    ELSE IF IsArr(v) THEN Arr([i \in 1..Len(v.arr) |-> Deref(st, v.arr[i])])
    ELSE IF IsObj(v)
    THEN Obj([i \in 1..Len(v.obj) |-> [k |-> v.obj[i].k, v |-> Deref(st, v.obj[i].v)]])
    ELSE v

\* the outcome of a handler on the store: the store and the SetupDetails it leaves
Kept(st, rt) == [store |-> st, root |-> rt]

\* the SetupDetails of Banana as loaded: two setup details, each an object with
\* its own list of bullet points
InitStore ==
    <<Arr(<<Ref(2), Ref(4)>>),
      Obj(<<Prop("Category", Str(<<"c">>)), Prop("Details", Str(<<"d">>)),
            Prop("BulletPoints", Ref(3))>>),
      Arr(<<Str(<<"p">>)>>),
      Obj(<<Prop("Category", Str(<<"c">>)), Prop("Details", Str(<<"d">>)),
            Prop("BulletPoints", Ref(5))>>),
      Arr(<< >>)>>

\* the address of setupDetails[setupIndex].BulletPoints
BulletsAt(st, setupDetails, setupIndex) ==
    Get(st[setupDetails[setupIndex + 1].ref], "BulletPoints").ref

\* setupDetails[setupIndex] is undefined
NoSetup(setupDetails, setupIndex) == setupIndex < 0 \/ setupIndex >= Len(setupDetails)

\* updateBulletPoint: [...SetupDetails] is a new array of the same objects,
\* [...BulletPoints] a new array; the object setupDetails[setupIndex] is
\* assigned the new bullet points in place; updateField stores the new array
updateBulletPointRefs(st, rt, setupIndex, bulletIndex, value) ==
    LET setupDetails == st[rt].arr
    IN  IF NoSetup(setupDetails, setupIndex) THEN Kept(st, rt)
        ELSE LET newList == Len(st) + 1
                 newBullets == Len(st) + 2
                 bulletPoints == AssignIndex(Spread(st[BulletsAt(st, setupDetails, setupIndex)].arr),
                                             bulletIndex, value)
                 setup == setupDetails[setupIndex + 1].ref
             IN  Kept(Append(Append([st EXCEPT ![setup] = Set(@, "BulletPoints", Ref(newBullets))],
                                    Arr(setupDetails)),
                             Arr(bulletPoints)),
                      newList)

\* addBulletPoint: [...SetupDetails] is a new array of the same objects; the
\* push is made on the bullet points of setupDetails[setupIndex] in place
addBulletPointRefs(st, rt, setupIndex) ==
    LET setupDetails == st[rt].arr
    IN  IF NoSetup(setupDetails, setupIndex) THEN Kept(st, rt)
        ELSE LET bullets == BulletsAt(st, setupDetails, setupIndex)
             IN  Kept(Append([st EXCEPT ![bullets] = Arr(Append(@.arr, Str(<< >>)))],
                             Arr(setupDetails)),
                      Len(st) + 1)

\* removeBulletPoint: as addBulletPoint, with splice(bulletIndex, 1) in place
removeBulletPointRefs(st, rt, setupIndex, bulletIndex) ==
    LET setupDetails == st[rt].arr
    IN  IF NoSetup(setupDetails, setupIndex) THEN Kept(st, rt)
        ELSE LET bullets == BulletsAt(st, setupDetails, setupIndex)
             IN  Kept(Append([st EXCEPT ![bullets] = Arr(Splice1(@.arr, bulletIndex))],
                             Arr(setupDetails)),
                      Len(st) + 1)

\* an addArrayItem whose template would be one object made once and pushed at
\* every click, so that the setup details added are the same object: C12 fails
\* of it
addSetupDetailRefs_SharedTemplate(st, rt) ==
    LET shared == {a \in 1..Len(st) : IsObj(st[a]) /\ Deref(st, st[a]) = SetupTemplate}
        newBullets == Len(st) + 1
        newSetup == Len(st) + 2
        newList == Len(st) + 3
    IN  IF shared # {}
        THEN Kept(Append(st, Arr(Append(st[rt].arr, Ref(CHOOSE a \in shared : TRUE)))),
                  Len(st) + 1)
        ELSE Kept(Append(Append(Append(st, Arr(<< >>)),
                                Set(SetupTemplate, "BulletPoints", Ref(newBullets))),
                         Arr(Append(st[rt].arr, Ref(newSetup)))),
                  newList)

\* addArrayItem("SetupDetails", { Category: "", Details: "", BulletPoints: [] }):
\* the object literal and its array are made anew at each click
addSetupDetailRefs(st, rt) ==
    LET newBullets == Len(st) + 1
        newSetup == Len(st) + 2
        newList == Len(st) + 3
    IN  Kept(Append(Append(Append(st, Arr(<< >>)),
                           Set(SetupTemplate, "BulletPoints", Ref(newBullets))),
                    Arr(Append(st[rt].arr, Ref(newSetup)))),
             newList)

\* an edit handler that ran to the result res, leaving the store h
HeapEdit(op, res, h) ==
    /\ items' = res.items
    /\ thrown' = res.thrown
    /\ lastEdit' = op
    /\ edits' = edits + 1
    /\ store' = h.store
    /\ root' = h.root
    /\ UNCHANGED <<selectedItem, currentFilePath, disk, configFile, tasks, toast, ios>>

HeapUpdateBulletPoint(setupIndex, bulletIndex, value) ==
    HeapEdit([op |-> "updateBulletPoint", setupIndex |-> setupIndex, index |-> bulletIndex,
              value |-> value],
             updateBulletPoint(items, selectedItem, setupIndex, bulletIndex, value),
             updateBulletPointRefs(store, root, setupIndex, bulletIndex, value))

HeapAddBulletPoint(setupIndex) ==
    HeapEdit([op |-> "addBulletPoint", setupIndex |-> setupIndex],
             addBulletPoint(items, selectedItem, setupIndex),
             addBulletPointRefs(store, root, setupIndex))

HeapRemoveBulletPoint(setupIndex, bulletIndex) ==
    HeapEdit([op |-> "removeBulletPoint", setupIndex |-> setupIndex, index |-> bulletIndex],
             removeBulletPoint(items, selectedItem, setupIndex, bulletIndex),
             removeBulletPointRefs(store, root, setupIndex, bulletIndex))

HeapAddSetupDetail ==
    HeapEdit([op |-> "addArrayItem", field |-> "SetupDetails", value |-> SetupTemplate],
             addArrayItem(items, selectedItem, "SetupDetails", SetupTemplate),
             addSetupDetailRefs(store, root))

\* games.json has been loaded and Banana, the second record, is selected
HeapInit ==
    /\ currentFilePath = "games.json"
    /\ items = LoadOutcome(InitDisk[currentFilePath]).items
    /\ selectedItem = 1
    /\ disk = InitDisk
    /\ configFile = currentFilePath
    /\ tasks = [t \in Tasks |-> Idle]
    /\ toast = "success"
    /\ thrown = FALSE
    /\ lastEdit = [op |-> "none"]
    /\ edits = 0
    /\ ios = 1
    /\ store = InitStore
    /\ root = 1

HeapNext ==
    \/ edits < MaxHeapEdits /\ \E k \in 0..2, index \in 0..1 :
            HeapUpdateBulletPoint(k, index, Str(<<"v">>))
    \/ edits < MaxHeapEdits /\ \E k \in 0..2 : HeapAddBulletPoint(k)
    \/ edits < MaxHeapEdits /\ \E k \in 0..2, index \in 0..1 : HeapRemoveBulletPoint(k, index)
    \/ edits < MaxHeapEdits /\ HeapAddSetupDetail

HeapSpec == HeapInit /\ [][HeapNext]_vars

\* the store holds what the collection holds: the content behind root is the
\* SetupDetails of the selected record
HeapAgrees == Deref(store, Ref(root)) = Get(items[selectedItem + 1], "SetupDetails")

-----------------------------------------------------------------------------
(* FallbackSpec: loadJsonData of the page without a configuration file      *)
(* (src/unnamed/part_001 lines 78-116 with isDevelopment, and the second    *)
(* script of +page.svelte, lines 871-892). It looks for the document in     *)
(* three places, has no DevOnly backfill, and its catch block only calls    *)
(* console.error, which shows the user nothing. The toast stands for what   *)
(* the page shows the user; the page has no currentFilePath, so that and    *)
(* the configuration file stay absent.                                      *)

\* fs.readTextFile("gameCompatibility.json")
RelativePath == "gameCompatibility.json"

\* fetch("/gameCompatibility.json")
FetchPath == "/gameCompatibility.json"

\* path.join(home, "gameCompatibility.json")
HomePath == "~/gameCompatibility.json"

FallbackPaths == {RelativePath, FetchPath, HomePath}

\* what a place can hold: a document, text that is not JSON, or nothing
FallbackTexts == {GamesText, ShortText, BrokenText, NoText}

\* the body of a response whose status is not ok (r.text() of a 404 page)
NotFoundBody == [garbage |-> TRUE]

\* JSON.parse and the sort of the pages without the backfill: ok is FALSE
\* when one of them throws
FallbackOutcome(text) ==
    LET parsed == JSONparse(text)
    IN  IF ~parsed.ok THEN [ok |-> FALSE, items |-> << >>]
        ELSE IF ~IsArr(parsed.value) THEN [ok |-> FALSE, items |-> << >>]
        ELSE IF \E i \in 1..Len(parsed.value.arr) : ~IsObj(parsed.value.arr[i])
        THEN [ok |-> FALSE, items |-> << >>]
        ELSE [ok |-> TRUE, items |-> SortByName(parsed.value.arr)]

\* loadJsonData is called (onMount, or the Load Data button) and suspends in
\* readTextFile("gameCompatibility.json")
FallbackLoadStart(t) ==
    /\ FreeSlot(t)
    /\ ios < MaxIO
    /\ ios' = ios + 1
    /\ tasks' = [tasks EXCEPT ![t] = [op |-> "fallbackLoad", pc |-> "readRelative",
                                      path |-> RelativePath, text |-> NoText,
                                      tried |-> << >>]]
    /\ IOStep
    /\ UNCHANGED <<items, currentFilePath, disk, configFile, toast>>

\* jsonContent is there: JSON.parse and the sort, assigned to items; when one
\* throws the catch block calls console.error and the handler returns
FallbackFinish(t, text) ==
    /\ LET r == FallbackOutcome(text)
       IN  items' = IF r.ok THEN r.items ELSE items
    /\ tasks' = [tasks EXCEPT ![t] = Idle]
    /\ IOStep
    /\ UNCHANGED <<currentFilePath, disk, configFile, toast, ios>>

\* the handler goes on to await the next place, the one before having failed
FallbackTryNext(t, failed, pc, path) ==
    /\ tasks' = [tasks EXCEPT ![t] = [@ EXCEPT !.pc = pc, !.path = path,
                                               !.tried = Append(@, Tried(failed, FALSE))]]
    /\ IOStep
    /\ UNCHANGED <<items, currentFilePath, disk, configFile, toast, ios>>

\* a variant that goes from the relative file straight to the home directory
FallbackReadRelativeDone_SkipFetch(t, ok) ==
    /\ tasks[t].op = "fallbackLoad" /\ tasks[t].pc = "readRelative"
    /\ ok => disk[RelativePath] # NoText
    /\ IF ok THEN FallbackFinish(t, disk[RelativePath])
       ELSE FallbackTryNext(t, "relative", "homeDir", HomePath)

\* readTextFile("gameCompatibility.json") settles: its text is parsed, or the
\* inner catch awaits fetch("/gameCompatibility.json")
FallbackReadRelativeDone(t, ok) ==
    /\ tasks[t].op = "fallbackLoad" /\ tasks[t].pc = "readRelative"
    /\ ok => disk[RelativePath] # NoText
    /\ IF ok THEN FallbackFinish(t, disk[RelativePath])
       ELSE FallbackTryNext(t, "relative", "fetch", FetchPath)

\* fetch(...).then((r) => r.text()) settles. fetch rejects only when no
\* response arrives; a response of any status resolves, and its body is the
\* text that is parsed: the document, or the body of an error page when the
\* resource is not there. On a rejection the catch awaits path.homeDir().
FallbackFetchDone(t, response) ==
    /\ tasks[t].op = "fallbackLoad" /\ tasks[t].pc = "fetch"
    /\ response = "ok" => disk[FetchPath] # NoText
    /\ response = "notFound" => disk[FetchPath] = NoText
    /\ CASE response = "ok" -> FallbackFinish(t, disk[FetchPath])
         [] response = "notFound" -> FallbackFinish(t, NotFoundBody)
         [] response = "rejected" -> FallbackTryNext(t, "fetch", "homeDir", HomePath)

\* path.homeDir() and path.join settle: readTextFile(jsonPath) is awaited, or
\* the rejection reaches the outer catch
FallbackHomeDirDone(t, ok) ==
    /\ tasks[t].op = "fallbackLoad" /\ tasks[t].pc = "homeDir"
    /\ IF ok
       THEN /\ tasks' = [tasks EXCEPT ![t] = [@ EXCEPT !.pc = "readHome"]]
            /\ IOStep
            /\ UNCHANGED <<items, currentFilePath, disk, configFile, toast, ios>>
       ELSE FallbackFinish(t, NoText)

\* readTextFile(jsonPath) settles: its text is parsed, or the rejection
\* reaches the outer catch
FallbackReadHomeDone(t, ok) ==
    /\ tasks[t].op = "fallbackLoad" /\ tasks[t].pc = "readHome"
    /\ ok => disk[HomePath] # NoText
    /\ FallbackFinish(t, IF ok THEN disk[HomePath] ELSE NoText)

\* onMount has called loadJsonData, which is suspended in the first read; each
\* of the three places holds a document, other text, or nothing
FallbackInit ==
    /\ items = << >>
    /\ selectedItem = NULL
    /\ currentFilePath = NoPath
    /\ disk \in [FallbackPaths -> FallbackTexts]
    /\ configFile = NoPath
    /\ tasks = [t \in Tasks |->
                  IF t = 1
                  THEN [op |-> "fallbackLoad", pc |-> "readRelative", path |-> RelativePath,
                        text |-> NoText, tried |-> << >>]
                  ELSE Idle]
    /\ toast = "none"
    /\ thrown = FALSE
    /\ lastEdit = [op |-> "none"]
    /\ edits = 0
    /\ ios = 1
    /\ store = << >>
    /\ root = 0

FallbackNext ==
    \/ \E t \in Tasks : FallbackLoadStart(t)
    \/ \E t \in Tasks, ok \in BOOLEAN : FallbackReadRelativeDone(t, ok)
    \/ \E t \in Tasks, response \in {"ok", "notFound", "rejected"} :
            FallbackFetchDone(t, response)
    \/ \E t \in Tasks, ok \in BOOLEAN : FallbackHomeDirDone(t, ok)
    \/ \E t \in Tasks, ok \in BOOLEAN : FallbackReadHomeDone(t, ok)

FallbackSpec == FallbackInit /\ [][FallbackNext]_vars

-----------------------------------------------------------------------------
(* SeqSpec: the page of Spec used one handler at a time: Load Data, Save    *)
(* and Save As are clicked only when no load or save is suspended. The      *)
(* edits are as in Spec.                                                    *)

SeqNext ==
    \/ \E index \in 0..MaxIndex : SelectItem(index)
    \/ edits < MaxIOEdits /\ UpdateField("Name", Str(<<"b">>))
    \/ edits < MaxIOEdits /\ HandleSelectChange("OverallStatus", <<"x">>)
    \/ edits < MaxIOEdits /\ UpdateArrayItem("FeaturesNotEmulated", MaxIndex + 1, Str(<<"v">>))
    \/ edits < MaxIOEdits /\ AddBulletPoint(0)
    \/ \E t \in Tasks : Quiet /\ LoadStart(t)
    \/ \E t \in Tasks, readable \in BOOLEAN : LoadConfigDone(t, readable)
    \/ \E t \in Tasks, ok \in BOOLEAN : LoadReadLastDone(t, ok)
    \/ \E t \in Tasks, selected \in Paths \cup {NoPath} : LoadOpenDone(t, selected)
    \/ \E t \in Tasks, ok \in BOOLEAN : LoadReadSelectedDone(t, ok)
    \/ \E t \in Tasks, written \in BOOLEAN : LoadFinish(t, written)
    \/ \E t \in Tasks : Quiet /\ SaveStart(t)
    \/ \E t \in Tasks, ok \in BOOLEAN : SaveWriteDone(t, ok)
    \/ \E t \in Tasks : Quiet /\ SaveAsStart(t)
    \/ \E t \in Tasks, selectedPath \in SavePaths \cup {NoPath} : SaveAsDialogDone(t, selectedPath)
    \/ \E t \in Tasks, ok \in BOOLEAN : SaveAsWriteDone(t, ok)
    \/ \E t \in Tasks, written \in BOOLEAN : SaveAsFinish(t, written)

SeqSpec == Init /\ [][SeqNext]_vars

-----------------------------------------------------------------------------
(* WrittenSpec: the page of Spec when every write of the configuration      *)
(* succeeds: saveAppConfig never gets to its catch block.                   *)

WrittenNext ==
    \/ \E index \in 0..MaxIndex : SelectItem(index)
    \/ edits < MaxIOEdits /\ UpdateField("Name", Str(<<"b">>))
    \/ edits < MaxIOEdits /\ HandleSelectChange("OverallStatus", <<"x">>)
    \/ edits < MaxIOEdits /\ UpdateArrayItem("FeaturesNotEmulated", MaxIndex + 1, Str(<<"v">>))
    \/ edits < MaxIOEdits /\ AddBulletPoint(0)
    \/ \E t \in Tasks : LoadStart(t)
    \/ \E t \in Tasks, readable \in BOOLEAN : LoadConfigDone(t, readable)
    \/ \E t \in Tasks, ok \in BOOLEAN : LoadReadLastDone(t, ok)
    \/ \E t \in Tasks, selected \in Paths \cup {NoPath} : LoadOpenDone(t, selected)
    \/ \E t \in Tasks, ok \in BOOLEAN : LoadReadSelectedDone(t, ok)
    \/ \E t \in Tasks : LoadFinish(t, TRUE)
    \/ \E t \in Tasks : SaveStart(t)
    \/ \E t \in Tasks, ok \in BOOLEAN : SaveWriteDone(t, ok)
    \/ \E t \in Tasks : SaveAsStart(t)
    \/ \E t \in Tasks, selectedPath \in SavePaths \cup {NoPath} : SaveAsDialogDone(t, selectedPath)
    \/ \E t \in Tasks, ok \in BOOLEAN : SaveAsWriteDone(t, ok)
    \/ \E t \in Tasks : SaveAsFinish(t, TRUE)

WrittenSpec == Init /\ [][WrittenNext]_vars

-----------------------------------------------------------------------------
(* Properties.                                                             *)

Range(f) == {f[i] : i \in DOMAIN f}

\* the step is one of the edit handlers
EditStep == edits' = edits + 1

\* items[selectedItem] is a record
Selected == selectedItem # NULL /\ selectedItem >= 0 /\ selectedItem < Len(items)

\* the text is not JSON, or its top level is not an array
NotAnArrayText(text) == DOMAIN text # {"json"} \/ DOMAIN text.json # {"arr"}

\* C1: a load that fails (the chosen file cannot be read, or its text is not
\* JSON, or its top level is not an array) leaves items as they were: the step
\* in which the load fails assigns nothing to items, and no earlier step of a
\* load does.
C1_FailedLoadKeepsItems ==
    [][\A t \in Tasks :
          (/\ tasks[t].op = "load"
           /\ tasks'[t] # tasks[t]
           /\ ~(tasks[t].pc = "saveConfig" /\ ~NotAnArrayText(tasks[t].text)))
          => items' = items]_vars

\* a load of object.json has failed while the three records of games.json were loaded
C1_Witness ==
    /\ Quiet
    /\ toast = "error"
    /\ currentFilePath = "object.json"
    /\ Len(items) = 3

\* C2: the selection is absent or an index into the collection.
C2_SelectionValid ==
    selectedItem = NULL \/ (0 <= selectedItem /\ selectedItem < Len(items))

\* C3: the collection a load produces is reproduced by saving it and loading
\* the saved text: the same records in the same order, unknown fields included.
C3_RoundTrip ==
    [][\A t \in Tasks :
          (/\ tasks[t].op = "load" /\ tasks[t].pc = "saveConfig"
           /\ tasks'[t] = Idle
           /\ toast' = "success")
          => LoadOutcome(JSONstringify(items')) = [ok |-> TRUE, items |-> items']]_vars

\* the value holds Infinity somewhere
RECURSIVE HasInfinity(_)
HasInfinity(v) ==
    IF IsArr(v) THEN \E i \in 1..Len(v.arr) : HasInfinity(v.arr[i])
    ELSE IF IsObj(v) THEN \E i \in 1..Len(v.obj) : HasInfinity(v.obj[i].v)
    ELSE v = Infinity

\* The round trip of the collections whose numbers are all finite: a load that
\* produces one is reproduced by saving it and loading the saved text.
FiniteRoundTrip ==
    [][\A t \in Tasks :
          (/\ tasks[t].op = "load" /\ tasks[t].pc = "saveConfig"
           /\ tasks'[t] = Idle
           /\ toast' = "success"
           /\ ~HasInfinity(Arr(items')))
          => LoadOutcome(JSONstringify(items')) = [ok |-> TRUE, items |-> items']]_vars

\* a load is about to finish on the text that a save wrote from the collection
\* a load had produced, with its unknown field: not the text the file started with
SavedThenLoaded ==
    \E t \in Tasks :
        /\ tasks[t].op = "load" /\ tasks[t].pc = "saveConfig"
        /\ tasks[t].text = JSONstringify(items)
        /\ tasks[t].text # InitDisk[tasks[t].path]
        /\ edits = 0
        /\ ~HasInfinity(Arr(items))
        /\ \E i \in 1..Len(items) : Get(items[i], UnknownKey) = UnknownValue

\* the keys of o other than key, in order
KeysBut(o, key) == SelectSeq(Keys(o), LAMBDA k : k # key)

\* C4: updateField on a selected record sets the named field and nothing else:
\* the other records, the other fields of the record and their order are as
\* before, and the unknown field is written by a save as it was loaded.
C4_UpdateFieldFrame ==
    [][(EditStep /\ lastEdit'.op = "updateField" /\ Selected) =>
          /\ Len(items') = Len(items)
          /\ \A i \in 1..Len(items) : i # selectedItem + 1 => items'[i] = items[i]
          /\ LET old == items[selectedItem + 1]
                 new == items'[selectedItem + 1]
             IN  /\ Get(new, lastEdit'.field) = lastEdit'.value
                 /\ KeysBut(new, lastEdit'.field) = KeysBut(old, lastEdit'.field)
                 /\ \A k \in Range(Keys(old)) : k # lastEdit'.field => Get(new, k) = Get(old, k)
                 /\ Get(ToJSON(new), UnknownKey) = Get(old, UnknownKey)]_vars

\* updateField has just set the Name of a selected record that has an unknown field
C4_Witness ==
    /\ lastEdit.op = "updateField" /\ lastEdit.field = "Name"
    /\ Selected
    /\ Get(items[selectedItem + 1], "Name") = lastEdit.value
    /\ Get(items[selectedItem + 1], UnknownKey) = UnknownValue

\* C5: with no selection every edit handler leaves the collection as it was and
\* does not throw.
C5_NoSelectionNoOp ==
    [][(EditStep /\ selectedItem = NULL) => (items' = items /\ thrown' = FALSE)]_vars

\* removeBulletPoint has run with no selection on a loaded collection
C5_Witness ==
    /\ selectedItem = NULL
    /\ lastEdit.op = "removeBulletPoint"
    /\ Len(items) = 3

\* C6: while a load or a save is suspended, the only steps taken are those of a
\* suspended handler: no edit and no new load or save is processed.
C6_OneAtATime ==
    [][(\E t \in Tasks : InFlight(t)) =>
          (\E t \in Tasks : InFlight(t) /\ tasks'[t] # tasks[t])]_vars

\* C7: no edit handler changes the length of the collection or the selection.
C7_EditKeepsLengthAndSelection ==
    [][EditStep => (Len(items') = Len(items) /\ selectedItem' = selectedItem)]_vars

\* removeArrayItem has removed the first feature of the selected record
C7_Witness ==
    /\ lastEdit.op = "removeArrayItem" /\ lastEdit.index = 0
    /\ lastEdit.field = "FeaturesNotEmulated"
    /\ selectedItem = 1 /\ Len(items) = 3
    /\ Get(items[2], "FeaturesNotEmulated") = Arr(<<Str(<<"g">>)>>)

\* the list field of the selected record, as a save writes it
SavedList(its, sel, field) == ToJSON(Get(its[sel + 1], field))

ListLen(its, sel, field) == Len(Get(its[sel + 1], field).arr)

\* C8: removeArrayItem with an index outside 0..length-1 leaves the list as it
\* was and does not throw.
C8_RemoveOutOfBoundsNoOp ==
    [][(/\ EditStep /\ lastEdit'.op = "removeArrayItem" /\ Selected
        /\ lastEdit'.index \notin 0..(ListLen(items, selectedItem, lastEdit'.field) - 1))
       => /\ SavedList(items', selectedItem, lastEdit'.field)
                = SavedList(items, selectedItem, lastEdit'.field)
          /\ thrown' = FALSE]_vars

\* C9: updateArrayItem with an index outside 0..length-1 leaves the list as it
\* was: the same length, elements and order.
C9_ReplaceOutOfBoundsNoOp ==
    [][(/\ EditStep /\ lastEdit'.op = "updateArrayItem" /\ Selected
        /\ lastEdit'.index \notin 0..(ListLen(items, selectedItem, lastEdit'.field) - 1))
       => /\ ListLen(items', selectedItem, lastEdit'.field)
                = ListLen(items, selectedItem, lastEdit'.field)
          /\ SavedList(items', selectedItem, lastEdit'.field)
                = SavedList(items, selectedItem, lastEdit'.field)]_vars

\* the text is an integer numeral: an optional sign and one or more digits
IsIntegerText(raw) ==
    LET ds == IF raw # << >> /\ Head(raw) \in {"-", "+"} THEN Tail(raw) ELSE raw
    IN  ds # << >> /\ \A i \in 1..Len(ds) : ds[i] \in Digits

\* C10: handleSelectChange with a text that is empty or not a number leaves the
\* field as it was and does not throw.
C10_EnumParseGuard ==
    [][(/\ EditStep /\ lastEdit'.op = "handleSelectChange" /\ Selected
        /\ ~IsIntegerText(lastEdit'.raw))
       => /\ Get(items'[selectedItem + 1], lastEdit'.field)
                = Get(items[selectedItem + 1], lastEdit'.field)
          /\ thrown' = FALSE]_vars

\* the step is one of the three bullet-point handlers, and it did not throw
BulletStep ==
    /\ EditStep
    /\ lastEdit'.op \in {"updateBulletPoint", "addBulletPoint", "removeBulletPoint"}
    /\ ~thrown'

\* the addresses of the bullet lists of the setup details of the list at rt
BulletLists(st, rt) == {BulletsAt(st, st[rt].arr, k) : k \in 0..(Len(st[rt].arr) - 1)}

\* C11: the bullet-point handlers are copy-on-write: after one of them the
\* SetupDetails the record had before still shows the bullet points it had
\* (the content behind the old list is as it was), and the record's new
\* SetupDetails shares no bullet list with the old one.
C11_BulletCopyOnWrite ==
    [][BulletStep =>
          /\ Deref(store', Ref(root)) = Deref(store, Ref(root))
          /\ BulletLists(store', root') \cap BulletLists(store, root) = {}]_vars

\* C12: addBulletPoint on setup detail k of the selected record appends one
\* empty string to the bullet points of that setup detail and changes nothing
\* else: the other setup details (those added by addArrayItem included), the
\* other properties of setup detail k, the other fields of the record and the
\* other records are as before.
C12_AddBulletIsolation ==
    [][(EditStep /\ lastEdit'.op = "addBulletPoint" /\ ~thrown' /\ Selected) =>
          LET k == lastEdit'.setupIndex + 1
              old == Deref(store, Ref(root)).arr
              new == Deref(store', Ref(root')).arr
              rec == items[selectedItem + 1]
          IN  /\ Len(new) = Len(old)
              /\ \A j \in 1..Len(old) : j # k => new[j] = old[j]
              /\ new[k] = Set(old[k], "BulletPoints",
                              Arr(Append(Get(old[k], "BulletPoints").arr, Str(<< >>))))
              /\ items' = [items EXCEPT ![selectedItem + 1] = Set(rec, "SetupDetails", Arr(new))]]_vars

\* a setup detail was added by addArrayItem, then another, and addBulletPoint
\* has run on the first of them: it has one empty bullet point, the other none
C12_Witness ==
    /\ lastEdit.op = "addBulletPoint" /\ lastEdit.setupIndex = 2
    /\ ~thrown
    /\ LET setups == Deref(store, Ref(root)).arr
       IN  /\ Len(setups) = 4
           /\ Get(setups[1], "BulletPoints") = Arr(<<Str(<<"p">>)>>)
           /\ Get(setups[3], "BulletPoints") = Arr(<<Str(<< >>)>>)
           /\ Get(setups[4], "BulletPoints") = Arr(<< >>)
           /\ Get(items[selectedItem + 1], "SetupDetails") = Arr(setups)

\* the one-to-one maps of 1..n onto itself
Bijections(n) == {f \in [1..n -> 1..n] : \A i, j \in 1..n : f[i] = f[j] => i = j}

\* the records of the JSON text, as JSON.parse builds them
ParsedRecords(text) == JSONparse(text).value.arr

\* invocation t of a loading handler ends in this step with the collection assigned
LoadSucceeds(t) ==
    /\ tasks[t].op = "load" /\ tasks[t].pc = "saveConfig"
    /\ tasks'[t] = Idle
    /\ toast' = "success"

\* the loaded record is the parsed one with DevOnly as the claim has it
BackfilledFrom(loaded, parsed) ==
    IF Has(parsed, "DevOnly") THEN loaded = parsed
    ELSE loaded = Set(parsed, "DevOnly", Bool(FALSE))

\* Backfill in loadJsonData of the page with the configuration file: the
\* collection a load assigns holds each parsed record once, DevOnly = false
\* added where the document left it out and every other record as parsed.
BackfillOnLoad ==
    [][\A t \in Tasks : LoadSucceeds(t) =>
          LET parsed == ParsedRecords(tasks[t].text)
          IN  /\ Len(items') = Len(parsed)
              /\ \E f \in Bijections(Len(parsed)) :
                    \A i \in 1..Len(parsed) : BackfilledFrom(items'[i], parsed[f[i]])]_vars

\* a document with a record that leaves DevOnly out, one that has DevOnly true
\* and one that has DevOnly null has been loaded
BackfillSeen ==
    /\ Quiet /\ toast = "success" /\ Len(items) = 3
    /\ \E i \in 1..3 : ~Has(ParsedRecords(disk["games.json"])[i], "DevOnly")
    /\ \E i \in 1..3 : Get(items[i], "DevOnly") = Bool(TRUE)
    /\ \E i \in 1..3 : Get(items[i], "DevOnly") = Null
    /\ \E i \in 1..3 : Get(items[i], "DevOnly") = Bool(FALSE)

\* the UTF-16 code unit of a character
CodeUnit(c) ==
    IF IsLower(c) THEN 96 + CHOOSE i \in 1..Len(LowerCase) : LowerCase[i] = c
    ELSE IF IsUpper(c) THEN 64 + CHOOSE i \in 1..Len(UpperCase) : UpperCase[i] = c
    ELSE IF c \in Digits THEN 48 + DigitVal(c)
    ELSE IF c = "-" THEN 45
    ELSE IF c = "_" THEN 95
    ELSE 32

\* the code unit of the lower-case form of a character
LowerCodeUnit(c) == IF IsUpper(c) THEN CodeUnit(c) + 32 ELSE CodeUnit(c)

\* lower(a) <= lower(b), the strings compared code unit by code unit
LowerLeq(a, b) ==
    CompareWeights([i \in 1..Len(a) |-> LowerCodeUnit(a[i])],
                   [i \in 1..Len(b) |-> LowerCodeUnit(b[i])]) <= 0

NameOf(record) == Get(record, "Name").str

\* the collection is the parsed records, each once and DevOnly apart
PermutationOf(loaded, parsed) ==
    /\ Len(loaded) = Len(parsed)
    /\ \E f \in Bijections(Len(parsed)) :
          \A i \in 1..Len(parsed) : BackfilledFrom(loaded[i], parsed[f[i]])

\* C14, as the claim states it: after a successful load the collection is a
\* permutation of the parsed records in which lower(a.Name) <= lower(b.Name)
\* for all adjacent records a, b.
C14_SortedIgnoringCase ==
    [][\A t \in Tasks : LoadSucceeds(t) =>
          /\ PermutationOf(items', ParsedRecords(tasks[t].text))
          /\ \A i \in 1..(Len(items') - 1) :
                LowerLeq(NameOf(items'[i]), NameOf(items'[i + 1]))]_vars

\* C14, amended: after a successful load the collection is a permutation of
\* the parsed records in which a.Name.localeCompare(b.Name) <= 0 for all
\* adjacent records a, b.
C14_SortedByLocaleCompare ==
    [][\A t \in Tasks : LoadSucceeds(t) =>
          /\ PermutationOf(items', ParsedRecords(tasks[t].text))
          /\ \A i \in 1..(Len(items') - 1) :
                localeCompare(NameOf(items'[i]), NameOf(items'[i + 1])) <= 0]_vars

\* the document Banana, apple, Cherry has been loaded as apple, Banana, Cherry
C14_Witness ==
    /\ Quiet /\ toast = "success"
    /\ Len(ParsedRecords(disk["games.json"])) = 3
    /\ [i \in 1..3 |-> NameOf(ParsedRecords(disk["games.json"])[i])]
           = <<<<"B", "a", "n", "a", "n", "a">>, <<"a", "p", "p", "l", "e">>,
               <<"C", "h", "e", "r", "r", "y">>>>
    /\ [i \in 1..Len(items) |-> NameOf(items[i])]
           = <<<<"a", "p", "p", "l", "e">>, <<"B", "a", "n", "a", "n", "a">>,
               <<"C", "h", "e", "r", "r", "y">>>>

\* invocation t of a saving handler starts in this step
SaveStarts(t) == tasks[t] = Idle /\ tasks'[t].op \in {"save", "saveAs"}

\* the Name of each record of a JSON text, in the order of the text
NamesIn(text) == [i \in 1..Len(text.json.arr) |-> Get(text.json.arr[i], "Name")]

\* C15: an edit leaves every record at its index (the records other than the
\* selected one are as before, and the selected one keeps its other fields,
\* also when its Name is set), and a save writes the records in the order the
\* collection has then, not sorted again.
C15_OrderOnlyByLoad ==
    [][/\ (EditStep /\ ~thrown') =>
             /\ Len(items') = Len(items)
             /\ \A i \in 1..Len(items) : i # selectedItem + 1 => items'[i] = items[i]
             /\ (Selected /\ lastEdit'.op = "updateField") =>
                    \A k \in Range(Keys(items[selectedItem + 1])) :
                        k # lastEdit'.field =>
                            Get(items'[selectedItem + 1], k) = Get(items[selectedItem + 1], k)
       /\ \A t \in Tasks : SaveStarts(t) =>
             NamesIn(tasks'[t].text) = [i \in 1..Len(items) |-> Get(items[i], "Name")]
       /\ \A q \in DOMAIN disk : disk'[q] # disk[q] =>
             \E t \in Tasks : tasks[t].pc \in {"write", "writeSelected"} /\ disk'[q] = tasks[t].text]_vars

\* Cherry, the last record, was renamed b and the collection saved: the file
\* holds apple, Banana, b in that order, which is not the sorted one
C15_Witness ==
    /\ Quiet
    /\ lastEdit.op = "updateField" /\ lastEdit.field = "Name"
    /\ Len(items) = 3
    /\ NamesIn(disk["games.json"])
          = <<Str(<<"a", "p", "p", "l", "e">>), Str(<<"B", "a", "n", "a", "n", "a">>),
              Str(<<"b">>)>>
    /\ NamesIn(disk["games.json"]) = [i \in 1..3 |-> Get(items[i], "Name")]

\* the sources invocation t has tried, in order
Sources(t) == [i \in 1..Len(tasks[t].tried) |-> tasks[t].tried[i].src]

\* invocation t of loadJsonData has its document: saveAppConfig is awaited
Resolved(t) == tasks[t].op = "load" /\ tasks[t].pc = "saveConfig"

\* C16: a load resolves its path in a fixed order. With a remembered path it
\* reads that file first, and when the read succeeds that path is the one used
\* and the file picker is never invoked; with no remembered path, or when the
\* read fails, the picker is invoked next and the picked path is the one read
\* and used. The first read that succeeds ends the resolution.
C16_ResolutionOrder ==
    [][\A t \in Tasks : (tasks[t].op = "load" /\ tasks'[t] # tasks[t]) =>
          /\ tasks[t].pc = "config" =>
                \/ /\ tasks'[t].pc = "readLast"
                   /\ tasks'[t].path = configFile /\ configFile # NoPath
                   /\ Sources(t)' = <<"config">>
                \/ /\ tasks'[t].pc = "open"
                   /\ Sources(t)' = <<"config">> /\ ~tasks'[t].tried[1].ok
          /\ tasks[t].pc = "readLast" =>
                \/ /\ Resolved(t)'
                   /\ tasks'[t].path = tasks[t].path
                   /\ tasks'[t].text = disk[tasks[t].path]
                   /\ currentFilePath' = tasks[t].path
                   /\ Sources(t)' = <<"config", "remembered">>
                \/ /\ tasks'[t].pc = "open"
                   /\ Sources(t)' = <<"config", "remembered">> /\ ~tasks'[t].tried[2].ok
          /\ tasks[t].pc = "open" =>
                \/ tasks'[t] = Idle
                \/ /\ tasks'[t].pc = "readSelected"
                   /\ tasks'[t].path \in Paths
                   /\ Sources(t)' = Append(Sources(t), "picker")
          /\ tasks[t].pc = "readSelected" =>
                \/ tasks'[t] = Idle /\ toast' = "error"
                \/ /\ Resolved(t)'
                   /\ tasks'[t].path = tasks[t].path
                   /\ tasks'[t].text = disk[tasks[t].path]
                   /\ currentFilePath' = tasks[t].path
                   /\ Sources(t)' = Append(Sources(t), "picked")
          /\ Resolved(t)' =>
                /\ tasks'[t].tried[Len(tasks'[t].tried)].ok
                /\ \A i \in 1..(Len(tasks'[t].tried) - 1) : ~tasks'[t].tried[i].ok
                         \/ tasks'[t].tried[i].src \in {"config", "picker"}]_vars

\* the read of the remembered games.json failed, the picker gave short.json,
\* and that file was read: it is the one the load uses
C16_Witness ==
    \E t \in Tasks :
        /\ Resolved(t)
        /\ tasks[t].tried = <<Tried("config", TRUE), Tried("remembered", FALSE),
                               Tried("picker", TRUE), Tried("picked", TRUE)>>
        /\ tasks[t].path = "short.json" /\ configFile = "games.json"
        /\ currentFilePath = "short.json"

\* invocation t returns in this step because its dialog was cancelled
Cancelled(t) ==
    /\ \/ tasks[t].op = "load" /\ tasks[t].pc = "open"
       \/ tasks[t].op \in {"save", "saveAs"} /\ tasks[t].pc = "dialog"
    /\ tasks'[t] = Idle

\* C17: cancelling the open dialog of a load or the save dialog of Save As
\* returns without a notification and without reading or writing a file:
\* the collection, the selection, the current path, the remembered path and
\* the files are as before.
C17_CancelIsSilent ==
    [][/\ \A t \in Tasks : Cancelled(t) =>
             UNCHANGED <<items, selectedItem, currentFilePath, configFile, disk, toast>>
       /\ \A t \in Tasks : (tasks[t].pc \in {"open", "dialog"} /\ tasks'[t] # tasks[t]) =>
             tasks'[t].pc \in {"readSelected", "writeSelected"} \/ Cancelled(t)]_vars

\* every handler that was started (the load of the mount, then loads or saves)
\* was cancelled at its dialog: no toast was ever shown and nothing has changed
C17_Witness ==
    /\ Quiet /\ ios = MaxIO
    /\ toast = "none" /\ items = << >>
    /\ currentFilePath = NoPath /\ configFile = NoPath /\ disk = InitDisk

\* the remembered path changes in this step
Remembers == configFile' # configFile

\* C20: the remembered path is written only by a load that succeeded or a
\* save that succeeded; a load whose file is read but does not parse leaves it
\* as it was.
C20_RememberOnlySuccess ==
    [][Remembers =>
          \E t \in Tasks :
              /\ tasks[t].pc = "saveConfig" /\ tasks'[t] = Idle
              /\ toast' = "success"
              /\ configFile' = tasks[t].path]_vars

\* invocation t of the loadJsonData that looks in three places takes this step
FallbackStep(t) == tasks[t].op = "fallbackLoad" /\ tasks'[t] # tasks[t]

\* C18: without a configuration file a load reads the relative file
\* gameCompatibility.json first, then fetches /gameCompatibility.json, then
\* reads the file under the home directory, in that order; a place is tried
\* only after every earlier one has failed, and the place that gives a text
\* is the last one tried.
C18_FallbackOrder ==
    [][\A t \in Tasks :
          /\ (tasks[t] = Idle /\ tasks'[t].op = "fallbackLoad") =>
                /\ tasks'[t].pc = "readRelative" /\ tasks'[t].path = RelativePath
                /\ tasks'[t].tried = << >>
          /\ FallbackStep(t) =>
                /\ tasks[t].pc = "readRelative" =>
                      \/ tasks'[t] = Idle
                      \/ /\ tasks'[t].pc = "fetch" /\ tasks'[t].path = FetchPath
                         /\ tasks'[t].tried = <<Tried("relative", FALSE)>>
                /\ tasks[t].pc = "fetch" =>
                      \/ tasks'[t] = Idle
                      \/ /\ tasks'[t].pc = "homeDir" /\ tasks'[t].path = HomePath
                         /\ tasks'[t].tried = <<Tried("relative", FALSE), Tried("fetch", FALSE)>>
                /\ tasks[t].pc = "homeDir" =>
                      \/ tasks'[t] = Idle
                      \/ /\ tasks'[t].pc = "readHome" /\ tasks'[t].path = HomePath
                         /\ tasks'[t].tried = <<Tried("relative", FALSE), Tried("fetch", FALSE)>>
                /\ tasks[t].pc = "readHome" => tasks'[t] = Idle
                /\ (tasks'[t] = Idle /\ items' # items) =>
                      /\ disk[tasks[t].path] # NoText
                      /\ items' = FallbackOutcome(disk[tasks[t].path]).items]_vars

\* the relative file and the fetched resource are not there and the file under
\* the home directory is the document of three records: it has been loaded
C18_Witness ==
    /\ Quiet
    /\ DOMAIN disk = FallbackPaths
    /\ disk[RelativePath] = NoText /\ disk[FetchPath] = NoText /\ disk[HomePath] = GamesText
    /\ Len(items) = 3

\* the last of the three places has failed in this step of invocation t: the
\* home directory is not to be had, or the file under it is not there
AllFailed(t) ==
    /\ FallbackStep(t)
    /\ tasks'[t] = Idle
    /\ \/ tasks[t].pc = "homeDir"
       \/ tasks[t].pc = "readHome" /\ disk[HomePath] = NoText

\* C19: in the load that looks in three places, a place that fails is passed
\* over without a notification, and when all three have failed the collection
\* is as before and the user is shown a failure notification.
C19_AllFailedIsReported ==
    [][\A t \in Tasks :
          /\ (FallbackStep(t) /\ tasks'[t].pc \in {"fetch", "homeDir", "readHome"}) =>
                UNCHANGED <<items, toast>>
          /\ AllFailed(t) => items' = items /\ toast' = "error"]_vars

\* invocation t of a loading handler assigns the records of text in this step
Loads(t, text) ==
    \/ LoadSucceeds(t) /\ text = tasks[t].text
    \/ /\ FallbackStep(t) /\ tasks'[t] = Idle
       /\ tasks[t].pc \in {"readRelative", "fetch", "readHome"}
       /\ text = disk[tasks[t].path]
       /\ text # NoText /\ FallbackOutcome(text).ok
       /\ items' # items

\* C13: a load gives every record that leaves DevOnly out DevOnly = false,
\* and every record that has DevOnly keeps its value.
C13_BackfillOnLoad ==
    [][\A t \in Tasks : \A text \in Range(disk) \cup {tasks[t].text} : Loads(t, text) =>
          LET parsed == ParsedRecords(text)
          IN  /\ Len(items') = Len(parsed)
              /\ \E f \in Bijections(Len(parsed)) :
                    \A i \in 1..Len(parsed) : BackfilledFrom(items'[i], parsed[f[i]])]_vars

\* invocation t resumes in this step from awaiting saveAppConfig
ConfigSettles(t) == tasks[t].pc = "saveConfig" /\ tasks'[t] # tasks[t]

\* C21: the configuration is best-effort. Whether or not the write of the
\* configuration succeeds, a load ends with the outcome its text gives (the
\* records assigned and success shown, or the parse error) and a Save As
\* ends with success shown and the file as written; and a load that cannot
\* read the configuration goes on to the file picker with nothing shown.
C21_ConfigBestEffort ==
    [][\A t \in Tasks :
          /\ (ConfigSettles(t) /\ tasks[t].op = "load") =>
                LET r == LoadOutcome(tasks[t].text)
                IN  /\ tasks'[t] = Idle
                    /\ r.ok => items' = r.items /\ toast' = "success"
                    /\ ~r.ok => items' = items /\ toast' = "error"
          /\ (ConfigSettles(t) /\ tasks[t].op \in {"save", "saveAs"}) =>
                /\ tasks'[t] = Idle
                /\ toast' = "success"
                /\ UNCHANGED <<items, disk, currentFilePath>>
          /\ (tasks[t].pc = "config" /\ tasks'[t] # tasks[t]) =>
                /\ tasks'[t].pc \in {"readLast", "open"}
                /\ configFile = NoPath => tasks'[t].pc = "open"
                /\ UNCHANGED <<items, toast, currentFilePath>>]_vars

\* the first load read games.json and showed success although the
\* configuration could not be written: no path is remembered
C21_Witness ==
    /\ Quiet /\ toast = "success"
    /\ currentFilePath = "games.json" /\ configFile = NoPath
    /\ items = LoadOutcome(GamesText).items
    /\ disk = InitDisk

\* the writeTextFile that invocation t awaits settles in this step
WriteSettles(t) == tasks[t].pc \in {"write", "writeSelected"} /\ tasks'[t] # tasks[t]

\* the write has failed: the file does not hold the text that was to be written
\* (or, for Save As, the handler ends without going on to saveAppConfig)
WriteFails(t) ==
    /\ WriteSettles(t)
    /\ \/ disk'[tasks[t].path] # tasks[t].text
       \/ tasks[t].pc = "writeSelected" /\ tasks'[t] = Idle

SaveSucceeds(t) ==
    /\ WriteSettles(t)
    /\ disk'[tasks[t].path] = tasks[t].text
    /\ \/ tasks[t].pc = "write" /\ toast' = "success"
       \/ tasks[t].pc = "writeSelected" /\ tasks'[t].pc = "saveConfig"

\* Save is clicked in this step: saveJsonData starts in a free slot
SaveClicked(t) == tasks[t] = Idle /\ tasks'[t].op = "save"

\* C23: once a save to path p succeeds, p is the current path, and a Save
\* with a current path writes to it without the save dialog; a Save with no
\* current path opens the save dialog and writes nothing before it settles.
C23_SavedPathIsCurrent ==
    [][\A t \in Tasks :
          /\ SaveSucceeds(t) => currentFilePath' = tasks[t].path
          /\ (SaveClicked(t) /\ currentFilePath # NoPath) =>
                /\ tasks'[t].pc = "write" /\ tasks'[t].path = currentFilePath
          /\ (SaveClicked(t) /\ currentFilePath = NoPath) =>
                /\ tasks'[t].pc = "dialog" /\ disk' = disk]_vars

\* what holds of the saves among overlapping handlers: a Save As whose write
\* succeeds makes its path the current one in that step, a Save writes to the
\* path that was current when it was clicked, and a Save with no current path
\* opens the dialog.
SaveFollowsCurrentPath ==
    [][\A t \in Tasks :
          /\ (SaveSucceeds(t) /\ tasks[t].pc = "writeSelected") =>
                currentFilePath' = tasks[t].path
          /\ (SaveClicked(t) /\ currentFilePath # NoPath) =>
                /\ tasks'[t].pc = "write" /\ tasks'[t].path = currentFilePath
          /\ (SaveClicked(t) /\ currentFilePath = NoPath) =>
                /\ tasks'[t].pc = "dialog" /\ disk' = disk]_vars

\* a[i] as it is read: an empty slot reads as undefined
ElementAt(a, i) == IF a[i] = Hole THEN Undefined ELSE a[i]

\* the list field of the selected record that the edit of this step names
ListBefore == Get(items[selectedItem + 1], lastEdit'.field)
ListAfter == Get(items'[selectedItem + 1], lastEdit'.field)

\* C24: addArrayItem on a selected record whose named field is a list gives
\* that list one more element: the last one is the template and every
\* element before it reads as it did, at the same index.
C24_AppendAtEnd ==
    [][(EditStep /\ lastEdit'.op = "addArrayItem" /\ Selected /\ IsArr(ListBefore)) =>
          /\ ~thrown'
          /\ IsArr(ListAfter)
          /\ Len(ListAfter.arr) = Len(ListBefore.arr) + 1
          /\ ListAfter.arr[Len(ListAfter.arr)] = lastEdit'.value
          /\ \A i \in 1..Len(ListBefore.arr) :
                ElementAt(ListAfter.arr, i) = ElementAt(ListBefore.arr, i)]_vars

\* Banana had two setup details and has a third, the template, after them
C24_Witness ==
    /\ lastEdit.op = "addArrayItem" /\ lastEdit.field = "SetupDetails"
    /\ ~thrown /\ edits = 1 /\ selectedItem = 1 /\ Len(items) = 3
    /\ Get(items[2], "SetupDetails")
          = Arr(<<SetupWith(<<Str(<<"p">>)>>), SetupWith(<< >>), SetupTemplate>>)

\* the elements of s without their repetitions, each where it comes first
RECURSIVE Distinct(_)
Distinct(s) ==
    IF s = << >> THEN << >>
    ELSE LET r == Distinct(SubSeq(s, 1, Len(s) - 1))
         IN  IF s[Len(s)] \in Range(r) THEN r ELSE Append(r, s[Len(s)])

\* the keys of record j of a JSON text in the order the text has them
TextKeys(text, j) == Distinct(Keys(text.json.arr[j]))

\* the Name that record j of a JSON text gives
TextName(text, j) ==
    LET rec == text.json.arr[j]
    IN  rec.obj[CHOOSE i \in 1..Len(rec.obj) : rec.obj[i].k = "Name"].v

\* the keys a load is to give a record: those of the text, then DevOnly
\* when the text has none
KeysAsLoaded(ks) == IF "DevOnly" \in Range(ks) THEN ks ELSE Append(ks, "DevOnly")

\* the field of the selected record that the edit of this step assigns
EditedField == IF "field" \in DOMAIN lastEdit' THEN lastEdit'.field ELSE "SetupDetails"

\* the keys of ks that are not array indices, in order
NamedKeys(ks) == SelectSeq(ks, LAMBDA k : ~IsIndexKey(k))

\* C25: the keys of every record keep their order. A load gives each record
\* the keys of its text in the order of the text, with a backfilled DevOnly
\* after them; a save writes the keys of each record in the order the record
\* has them; an edit that assigns a field the record has leaves the keys and
\* their order as they are.
C25_KeyOrderKept ==
    [][/\ \A t \in Tasks : LoadSucceeds(t) =>
             \E f \in Bijections(Len(items')) :
                 \A i \in 1..Len(items') :
                     /\ Get(items'[i], "Name") = TextName(tasks[t].text, f[i])
                     /\ Keys(items'[i]) = KeysAsLoaded(TextKeys(tasks[t].text, f[i]))
       /\ \A t \in Tasks : SaveStarts(t) =>
             \A i \in 1..Len(items) : Keys(tasks'[t].text.json.arr[i]) = Keys(items[i])
       /\ (EditStep /\ Selected /\ ~thrown' /\ Has(items[selectedItem + 1], EditedField)) =>
             Keys(items'[selectedItem + 1]) = Keys(items[selectedItem + 1])]_vars

\* what holds of the order of the keys: the keys that are not array indices
\* keep the order of the text through load, edit and save, and the keys that
\* are array indices come before them.
NamedKeyOrderKept ==
    [][/\ \A t \in Tasks : LoadSucceeds(t) =>
             \E f \in Bijections(Len(items')) :
                 \A i \in 1..Len(items') :
                     /\ Get(items'[i], "Name") = TextName(tasks[t].text, f[i])
                     /\ NamedKeys(Keys(items'[i]))
                           = KeysAsLoaded(NamedKeys(TextKeys(tasks[t].text, f[i])))
                     /\ \A m, n \in 1..Len(Keys(items'[i])) :
                           (IsIndexKey(Keys(items'[i])[n]) /\ ~IsIndexKey(Keys(items'[i])[m]))
                               => n < m
       /\ \A t \in Tasks : SaveStarts(t) =>
             \A i \in 1..Len(items) : Keys(tasks'[t].text.json.arr[i]) = Keys(items[i])
       /\ (EditStep /\ Selected /\ ~thrown' /\ Has(items[selectedItem + 1], EditedField)) =>
             Keys(items'[selectedItem + 1]) = Keys(items[selectedItem + 1])]_vars

\* short.json, whose record has the key 7 after Name, has been loaded and saved
\* to games.json: the saved record has 7 before Name
KeyOrderSeen ==
    /\ Quiet /\ Len(items) = 1
    /\ TextKeys(ShortText, 1)[2] = IndexKey
    /\ Keys(disk["games.json"].json.arr[1])[1] = IndexKey
    /\ Keys(disk["games.json"].json.arr[1])[2] = "Name"

\* the text that a save of the collection the file p holds would write
Resaved(p) == JSONstringify(LoadOutcome(disk[p]).items)

\* C26: with the handlers run one at a time, whenever none is suspended and
\* the current path is set, the collection is the one of the file at that
\* path: as long as no record was edited, the file parses and a Save would
\* write to it what a save of its own records writes, never the records of
\* another file.
C26_CollectionBelongsToPath ==
    (Quiet /\ edits = 0 /\ currentFilePath # NoPath) =>
        /\ LoadOutcome(disk[currentFilePath]).ok
        /\ JSONstringify(items) = Resaved(currentFilePath)

\* what holds with the handlers run one at a time: when the file at the
\* current path parses, the collection is the one of that file.
CollectionOfParsedFile ==
    (Quiet /\ edits = 0 /\ currentFilePath # NoPath /\ LoadOutcome(disk[currentFilePath]).ok) =>
        JSONstringify(items) = Resaved(currentFilePath)

\* the collection of games.json is in memory and broken.json, a readable
\* file whose load failed, is the current path
WrongPathSeen ==
    /\ Quiet /\ edits = 0
    /\ items = LoadOutcome(GamesText).items
    /\ currentFilePath = "broken.json" /\ disk = InitDisk

\* C27: when loads overlap, the state they leave is that of one of them as a
\* whole: once no handler is suspended (no file written and no record edited
\* meanwhile), the collection holds the records of the file at the current
\* path, whenever that file is one that loads.
C27_OverlappingLoadsAgree ==
    (/\ Quiet /\ edits = 0 /\ disk = InitDisk
     /\ currentFilePath # NoPath /\ LoadOutcome(disk[currentFilePath]).ok) =>
        items = LoadOutcome(disk[currentFilePath]).items

\* two loads have ended: the records are those of games.json and the current
\* path is short.json
MixedLoadsSeen ==
    /\ Quiet /\ edits = 0 /\ disk = InitDisk /\ ios = 2
    /\ items = LoadOutcome(GamesText).items
    /\ currentFilePath = "short.json"

\* C28: when the write of a Save As succeeds, the text written to the chosen
\* file is the serialization of the collection as it is then: what was
\* edited while the save dialog was open is in the file.
C28_SaveAsWritesCurrent ==
    [][\A t \in Tasks : (SaveSucceeds(t) /\ tasks[t].pc = "writeSelected") =>
          disk'[tasks[t].path] = JSONstringify(items)]_vars

\* a Save As has ended with success shown after a record was renamed, and the
\* file it wrote has the name from before the edit
StaleSaveSeen ==
    /\ Quiet /\ toast = "success" /\ ios = 2
    /\ lastEdit.op = "updateField" /\ lastEdit.field = "Name"
    /\ currentFilePath = "short.json" /\ Len(items) = 3
    /\ disk["short.json"] # JSONstringify(items)
    /\ Len(disk["short.json"].json.arr) = 3
    /\ \E i \in 1..3 : /\ Get(items[i], "Name") = Str(<<"b">>)
                       /\ NamesIn(disk["short.json"])[i] # Str(<<"b">>)

\* C29: with every write of the configuration succeeding, whenever no load
\* or save is suspended and the current path is set, the configuration
\* remembers the current path.
C29_RememberedIsCurrent ==
    (Quiet /\ currentFilePath # NoPath) => configFile = currentFilePath

\* the number that a sequence of digits denotes
RECURSIVE NumeralValue(_)
NumeralValue(ds) ==
    IF ds = << >> THEN 0
    ELSE 10 * NumeralValue(SubSeq(ds, 1, Len(ds) - 1)) + DigitVal(ds[Len(ds)])

\* the integer that an integer numeral denotes
IntegerOf(raw) ==
    IF Head(raw) = "-" THEN 0 - NumeralValue(Tail(raw))
    ELSE IF Head(raw) = "+" THEN NumeralValue(Tail(raw))
    ELSE NumeralValue(raw)

\* C30: handleSelectChange with a text that is an integer numeral sets the
\* field of the selected record to that integer, whatever it is: 99 is stored
\* as 99, outside the ordinals 0..4.
C30_EnumAcceptsAnyInteger ==
    [][(EditStep /\ lastEdit'.op = "handleSelectChange" /\ Selected) =>
          /\ IsIntegerText(lastEdit'.raw) =>
                /\ Get(items'[selectedItem + 1], lastEdit'.field)
                      = Num(IntegerOf(lastEdit'.raw))
                /\ thrown' = FALSE
          /\ (lastEdit'.raw # << >> /\ IsNum(parseInt(lastEdit'.raw))) =>
                Get(items'[selectedItem + 1], lastEdit'.field) = parseInt(lastEdit'.raw)]_vars

\* OverallStatus of the selected record is 99 after handleSelectChange with "99"
C30_Witness ==
    /\ lastEdit.op = "handleSelectChange" /\ lastEdit.raw = <<"9", "9">>
    /\ Selected /\ ~thrown
    /\ Get(items[selectedItem + 1], "OverallStatus") = Num(99)
    /\ 99 \notin 0..4

====
